---- MODULE Spec2Model ----
(***************************************************************************)
(* A model of the arnis core: the asset cache (asset_cache.rs), the chunk  *)
(* planner (distributed/chunking.rs) and the coordinator status machine    *)
(* that the work-unit and protocol types (distributed/work_unit.rs,        *)
(* distributed/protocol.rs) are the data of.                               *)
(*                                                                         *)
(* The specifications of the module:                                       *)
(*   Spec          the asset cache, its operations run one at a time       *)
(*   DirSpec       the cache and its listing over a damaged directory      *)
(*   ChunkSpec     split_into_chunks applied to inputs drawn by Init       *)
(*   CoordSpec     the coordinator's chunk status machine                  *)
(*   WireSpec      WorkResult records read from and written to JSON        *)
(*   KeySpec       generate_cache_key applied to pairs of boxes            *)
(*   RetrieveSpec  the flows of retrieve_data.rs in front of the cache     *)
(*   FetchSpec     fetch_data_from_overpass on its own                     *)
(*   DamagedSpec   fetch_data_with_cache over entries that are no good     *)
(*   DownloadOnlySpec  download_only, and load_from_cache after it         *)
(*   PerfSpec      the overrides of the performance configuration          *)
(*   OwnKeysSpec   cache operations of two threads, a key each             *)
(*   SharedKeySpec cache operations of three threads on one key            *)
(*   ClearRaceSpec saves, loads and clear_cache of three threads on a key  *)
(***************************************************************************)
EXTENDS Integers, Sequences, FiniteSets, TLC

VARIABLES
    cache_dir,   \* AssetCache.cache_dir: key directory -> its two files
    saved,       \* history: per key, the payload of the last successful save
    last,        \* history: the last cache operation and what it returned
    call,        \* the arguments of one split_into_chunks call
    chunks,      \* what that call returned
    llbbox_strict, \* LLBBox::new of this build refuses min = max too
    status,      \* coordinator: chunk_id -> WorkStatus
    holder,      \* coordinator: chunk_id -> the worker it was handed to
    workers,     \* coordinator: worker_id -> its WorkerStatus record
    scan,        \* coordinator: worker_id -> the chunk its RequestWork found
    handed,      \* history: chunk_id -> the workers a response carried it to
    reply,       \* coordinator: the last request and its response
    wire,        \* a WorkResult as a JSON object on the wire
    decoded,     \* what serde_json::from_str::<WorkResult> made of it
    key_call,    \* the two boxes of a pair of generate_cache_key calls
    key_result,  \* the keys those calls returned
    fetch,       \* retrieve_data: the running call, its downloads, its result
    again,       \* what a second split_into_chunks call on `call` returned
    PERF_CONFIG, \* perf_config.rs: the PerformanceConfig behind the mutex
    procs,       \* thread -> the cache operation it is in and how far it is
    serial,      \* history: the cache had every operation run in one piece
    key_dirs,    \* the keys whose directory exists, while threads share it
    orphans      \* the files that were unlinked while a thread had them open

cacheVars == <<cache_dir, saved, last>>
chunkVars == <<call, chunks, again, llbbox_strict>>
coordVars == <<status, holder, workers, scan, handed, reply>>
wireVars == <<wire, decoded>>
keyVars == <<key_call, key_result>>
perfVars == <<PERF_CONFIG>>
raceVars == <<procs, serial, key_dirs, orphans>>
vars == <<cache_dir, saved, last, call, chunks, llbbox_strict,
          status, holder, workers, scan, handed, reply,
          wire, decoded, key_call, key_result, fetch,
          again, PERF_CONFIG, procs, serial, key_dirs, orphans>>

None == "None"

(***************************************************************************)
(* Bounding boxes of the cache.  A coordinate is an integer count of       *)
(* tenths of a micro-degree (1e-7 degree), one decimal place below the     *)
(* six that generate_cache_key keeps.  No coordinate ends in the digit 5,  *)
(* so rounding to six places never meets a tie.                            *)
(***************************************************************************)
BBoxOf(min_lat, min_lng, max_lat, max_lng) ==
    [min_lat |-> min_lat, min_lng |-> min_lng,
     max_lat |-> max_lat, max_lng |-> max_lng]

\* the box of an operation that takes none
NoBBox == BBoxOf(0, 0, 0, 0)

\* the boxes of test_cache_integrity and test_list_cached_areas, and one
\* that differs from the first only in the seventh decimal place
BBoxes ==
    { BBoxOf(400000000, -740000000, 410000000, -730000000),
      BBoxOf(400000004, -740000000, 410000000, -730000000),
      BBoxOf(500000000, -840000000, 510000000, -830000000) }

(***************************************************************************)
(* A string that the code builds or rewrites character by character is a   *)
(* sequence of one-character strings until it is complete.                 *)
(***************************************************************************)
DigitChars == <<"0", "1", "2", "3", "4", "5", "6", "7", "8", "9">>

RECURSIVE DecDigits(_)
DecDigits(n) ==
    IF n < 10 THEN <<DigitChars[n + 1]>>
    ELSE DecDigits(n \div 10) \o <<DigitChars[(n % 10) + 1]>>

RECURSIVE ZeroPad(_, _)
ZeroPad(s, width) ==
    IF Len(s) >= width THEN s ELSE ZeroPad(<<"0">> \o s, width)

\* format!("{:.6}", x): sign, integer part, '.', six decimals, rounded
Format6(x) ==
    LET mag   == IF x < 0 THEN -x ELSE x
        micro == (mag + 5) \div 10
    IN  (IF x < 0 THEN <<"-">> ELSE <<>>)
        \o DecDigits(micro \div 1000000)
        \o <<".">>
        \o ZeroPad(DecDigits(micro % 1000000), 6)

\* a replacement that turns '.' into '_' and leaves the sign out
ReplaceUnsafeDropSign(s) ==
    LET kept == SelectSeq(s, LAMBDA c : c # "-")
    IN  [i \in 1..Len(kept) |-> IF kept[i] = "." THEN "_" ELSE kept[i]]

\* str::replace(['.', '-'], "_")
ReplaceUnsafe(s) ==
    [i \in 1..Len(s) |-> IF s[i] \in {".", "-"} THEN "_" ELSE s[i]]

\* the characters put back together as one string
RECURSIVE Concat(_)
Concat(s) == IF s = <<>> THEN "" ELSE Head(s) \o Concat(Tail(s))

generate_cache_key(bbox) ==
    Concat(ReplaceUnsafe(
        Format6(bbox.min_lat) \o <<"_">> \o Format6(bbox.min_lng)
        \o <<"_">> \o Format6(bbox.max_lat) \o <<"_">>
        \o Format6(bbox.max_lng)))

\* generate_cache_key on its own: boxes whose minimum corner lies just
\* below or above a multiple of 1e-6 degree, zero among them
KeyLats == {-4, 0, 4, 400000000, 400000004}
KeyLngs == {-740000000, -739999996, -4, 4}

KeyBoxes ==
    {BBoxOf(lat, lng, 410000000, -730000000) : lat \in KeyLats, lng \in KeyLngs}

NoKeyCall == <<>>
NoKeys == <<>>

KeyInit ==
    /\ key_call \in KeyBoxes \X KeyBoxes
    /\ key_result = NoKeys

GenerateKeys ==
    /\ key_result = NoKeys
    /\ key_result' = <<generate_cache_key(key_call[1]),
                       generate_cache_key(key_call[2])>>
    /\ UNCHANGED key_call

KeyNext == GenerateKeys

\* the key directory of each box the model uses
CacheKey == [b \in BBoxes |-> generate_cache_key(b)]

Keys == {CacheKey[b] : b \in BBoxes}

(***************************************************************************)
(* Payloads are the strings "", "x", "xx", ... of at most MaxPayloadLen    *)
(* bytes: every payload is a proper prefix of the longer ones, as a        *)
(* partly written file is of the whole one.                                *)
(***************************************************************************)
MaxPayloadLen == 2

Payloads == {[i \in 1..n |-> "x"] : n \in 0..MaxPayloadLen}
Methods == {"requests", "curl"}
\* SystemTime::now() in seconds since the epoch: one instant
Now == "now"

\* a file of a key directory: absent, or present with its content
NoFile == [exists |-> FALSE]
File(content) == [exists |-> TRUE, content |-> content]

\* the bytes that payloads and downloaded texts are made of
ByteCode(c) ==
    CASE c = "x" -> 1
      [] c = "{" -> 2
      [] c = "}" -> 3
      [] c = "e" -> 4
      [] c = " " -> 5
      [] c = "0" -> 0

\* DefaultHasher over the string, printed in hex.  The 64-bit SipHash is
\* modelled by a digest that, like it, has no collision among payloads this
\* short: each byte read as a digit of a base-8 number after a leading 1.
RECURSIVE HashBytes(_, _)
HashBytes(h, s) ==
    IF s = <<>> THEN h ELSE HashBytes(h * 8 + ByteCode(Head(s)), Tail(s))

calculate_checksum(data) == <<"hex", HashBytes(1, data)>>

Ok(v) == [ok |-> TRUE, value |-> v]
Err(kind) == [ok |-> FALSE, error |-> kind]

\* the CacheMetadata that save_osm_data builds for the data it has written
NewMetadataBadChecksum(bbox, data, download_method, timestamp) ==
    [bbox |-> bbox, timestamp |-> timestamp,
     osm_data_file |-> "osm_data.json", elevation_data_file |-> None,
     osm_checksum |-> calculate_checksum(<<>>),
     osm_data_size |-> Len(data), download_method |-> download_method]

\* a CacheMetadata whose size counts one byte more than was written
NewMetadataWrongSize(bbox, data, download_method, timestamp) ==
    [bbox |-> bbox, timestamp |-> timestamp,
     osm_data_file |-> "osm_data.json", elevation_data_file |-> None,
     osm_checksum |-> calculate_checksum(data),
     osm_data_size |-> Len(data) + 1, download_method |-> download_method]

NewMetadata(bbox, data, download_method, timestamp) ==
    [bbox |-> bbox, timestamp |-> timestamp,
     osm_data_file |-> "osm_data.json", elevation_data_file |-> None,
     osm_checksum |-> calculate_checksum(data),
     osm_data_size |-> Len(data), download_method |-> download_method]

EmptyDir == [osm |-> NoFile, meta |-> NoFile]

\* a metadata.json whose content is not the JSON of a CacheMetadata: a text
\* of len bytes that does not parse
Garbled(len) == [garbled |-> TRUE, len |-> len]
IsGarbled(content) == "garbled" \in DOMAIN content

\* the empty metadata.json that File::create leaves
GarbledMetadata == Garbled(0)

\* load_metadata that makes up a record when the file is missing
load_metadata_lenient(dir, cache_key) ==
    IF ~dir[cache_key].meta.exists THEN Ok(GarbledMetadata)
    ELSE IF IsGarbled(dir[cache_key].meta.content)
    THEN Err("SerializationError")
    ELSE Ok(dir[cache_key].meta.content)

\* File::open + serde_json::from_reader on <key>/metadata.json
load_metadata(dir, cache_key) ==
    IF ~dir[cache_key].meta.exists THEN Err("NotFound")
    ELSE IF IsGarbled(dir[cache_key].meta.content)
    THEN Err("SerializationError")
    ELSE Ok(dir[cache_key].meta.content)

\* load_osm_data without the comparison of the two checksums
load_osm_data_unchecked(dir, bbox) ==
    LET cache_key == CacheKey[bbox]
    IN  IF ~dir[cache_key].osm.exists THEN Err("NotFound")
        ELSE Ok(dir[cache_key].osm.content)

\* what load_osm_data returns on the cache directory dir
load_osm_data(dir, bbox) ==
    LET cache_key == CacheKey[bbox]
        osm_file  == dir[cache_key].osm
        data      == osm_file.content
        metadata  == load_metadata(dir, cache_key)
    IN  IF ~osm_file.exists THEN Err("NotFound")
        ELSE IF ~metadata.ok THEN metadata
        ELSE IF calculate_checksum(data) # metadata.value.osm_checksum
             THEN Err("IntegrityError")
        ELSE Ok(data)

\* has_cache that looks for the payload file only
has_cache_payload_only(dir, bbox) == dir[CacheKey[bbox]].osm.exists

has_cache(dir, bbox) ==
    LET cache_key == CacheKey[bbox]
    IN  dir[cache_key].osm.exists /\ dir[cache_key].meta.exists

\* the orders in which fs::read_dir can give the key directories
DirOrders ==
    {order \in [1..Cardinality(Keys) -> Keys] :
        \A i, j \in 1..Cardinality(Keys) : order[i] = order[j] => i = j}

\* list_cached_areas that gives up at the first metadata it cannot read
RECURSIVE list_cached_areas_strict(_, _)
list_cached_areas_strict(dir, order) ==
    IF order = <<>> THEN Ok(<<>>)
    ELSE LET path     == Head(order)
             metadata == load_metadata(dir, path)
             rest     == list_cached_areas_strict(dir, Tail(order))
         IN  IF ~(dir[path].osm.exists \/ dir[path].meta.exists) THEN rest
             ELSE IF ~metadata.ok THEN metadata
             ELSE IF ~rest.ok THEN rest
             ELSE Ok(<<metadata.value>> \o rest.value)

\* the loop of list_cached_areas over the directory entries in order: the
\* metadata of every key directory whose metadata.json exists and parses
RECURSIVE ListEntries(_, _)
ListEntries(dir, order) ==
    IF order = <<>> THEN <<>>
    ELSE LET path     == Head(order)
             metadata == load_metadata(dir, path)
         IN  (IF dir[path].meta.exists /\ metadata.ok
              THEN <<metadata.value>> ELSE <<>>)
             \o ListEntries(dir, Tail(order))

list_cached_areas(dir, order) == Ok(ListEntries(dir, order))

\* history of a key: no save since it was last cleared, or the payload and
\* metadata of the last save, and whether the key was left alone since
NoSave == [made |-> FALSE]
SavedAs(data, metadata, untouched) ==
    [made |-> TRUE, data |-> data, metadata |-> metadata,
     untouched |-> untouched]

CacheInit ==
    /\ cache_dir = [k \in Keys |-> EmptyDir]
    /\ saved = [k \in Keys |-> NoSave]
    /\ last = [op |-> "new", bbox |-> NoBBox, result |-> Ok(None)]

\* save_osm_data that leaves a metadata.json that is already there alone
save_osm_data_first_metadata(dir, bbox, data, download_method, timestamp) ==
    LET cache_key      == CacheKey[bbox]
        cache_metadata == NewMetadata(bbox, data, download_method, timestamp)
    IN  [dir |-> [dir EXCEPT ![cache_key] =
                     [osm |-> File(data),
                      meta |-> IF @.meta.exists THEN @.meta
                               ELSE File(cache_metadata)]],
         result |-> Ok(cache_metadata)]

\* what save_osm_data does to the cache directory dir and what it returns,
\* every file operation succeeding
save_osm_data(dir, bbox, data, download_method, timestamp) ==
    LET cache_key      == CacheKey[bbox]
        cache_metadata == NewMetadata(bbox, data, download_method, timestamp)
    IN  [dir |-> [dir EXCEPT ![cache_key] = [osm |-> File(data),
                                             meta |-> File(cache_metadata)]],
         result |-> Ok(cache_metadata)]

SaveOsmData(bbox, data, download_method, timestamp) ==
    LET cache_key == CacheKey[bbox]
        done      == save_osm_data(cache_dir, bbox, data, download_method,
                                   timestamp)
    IN  /\ cache_dir' = done.dir
        /\ saved' = [saved EXCEPT
                        ![cache_key] = SavedAs(data, done.result.value, TRUE)]
        /\ last' = [op |-> "save_osm_data", bbox |-> bbox,
                    result |-> done.result]

LoadOsmData(bbox) ==
    /\ last' = [op |-> "load_osm_data", bbox |-> bbox,
                result |-> load_osm_data(cache_dir, bbox)]
    /\ UNCHANGED <<cache_dir, saved>>

HasCache(bbox) ==
    /\ last' = [op |-> "has_cache", bbox |-> bbox,
                result |-> Ok(has_cache(cache_dir, bbox))]
    /\ UNCHANGED <<cache_dir, saved>>

GetMetadata(bbox) ==
    /\ last' = [op |-> "get_metadata", bbox |-> bbox,
                result |-> load_metadata(cache_dir, CacheKey[bbox])]
    /\ UNCHANGED <<cache_dir, saved>>

\* clear_cache that removes every key directory
ClearCacheEverything(bbox) ==
    /\ cache_dir' = [k \in Keys |-> EmptyDir]
    /\ saved' = [k \in Keys |-> NoSave]
    /\ last' = [op |-> "clear_cache", bbox |-> bbox, result |-> Ok(None)]

\* clear_cache: remove_dir_all on the key directory when it exists
ClearCache(bbox) ==
    LET cache_key == CacheKey[bbox]
    IN  /\ cache_dir' = [cache_dir EXCEPT ![cache_key] = EmptyDir]
        /\ saved' = [saved EXCEPT ![cache_key] = NoSave]
        /\ last' = [op |-> "clear_cache", bbox |-> bbox, result |-> Ok(None)]

\* clear_all that removes the payload files and leaves the rest
ClearAllPayloads ==
    /\ cache_dir' = [k \in Keys |-> [cache_dir[k] EXCEPT !.osm = NoFile]]
    /\ saved' = [k \in Keys |-> NoSave]
    /\ last' = [op |-> "clear_all", bbox |-> NoBBox, result |-> Ok(None),
                removed |-> Cardinality({k \in Keys :
                                            cache_dir[k] # EmptyDir})]

\* clear_all: remove_dir_all on the cache directory, then create it again.
\* The history keeps how many key directories there were to remove.
ClearAll ==
    /\ cache_dir' = [k \in Keys |-> EmptyDir]
    /\ saved' = [k \in Keys |-> NoSave]
    /\ last' = [op |-> "clear_all", bbox |-> NoBBox, result |-> Ok(None),
                removed |-> Cardinality({k \in Keys :
                                            cache_dir[k] # EmptyDir})]

\* the length of a metadata.json.  The text that to_writer_pretty writes is
\* not spelled out: every metadata file counts as one byte, which it has
\* at least.
\* the length of the text serde_json writes for an f64 coordinate, the
\* shortest that reads back as the same number: 40.0, -74.0, 40.0000004,
\* and 4e-7 or 1.2e-6 below 0.00001
RECURSIVE SignificantDigits(_)
SignificantDigits(n) ==
    IF n % 10 = 0 THEN SignificantDigits(n \div 10) ELSE Len(DecDigits(n))

CoordinateLen(x) ==
    LET mag      == IF x < 0 THEN -x ELSE x
        sign     == IF x < 0 THEN 1 ELSE 0
        whole    == mag \div 10000000
        fraction == mag % 10000000
    IN  IF 0 < mag /\ mag < 100
        THEN sign + (IF SignificantDigits(mag) = 1 THEN 1
                     ELSE SignificantDigits(mag) + 1) + 3
        ELSE sign + Len(DecDigits(whole)) + 1
             + (IF fraction = 0 THEN 1
                ELSE 7 - (Len(DecDigits(fraction))
                          - SignificantDigits(fraction)))

\* The number of digits format!("{:x}") prints for the u64 of a checksum:
\* 16 unless the hash is below 2^60.  Of the data of at most 4 bytes that
\* the model can write, the SipHash-1-3 of DefaultHasher is below 2^56 for
\* 5 and below 2^60 for 92 more; they are given by their digest,
\* HashBytes(1, data), that of "xe" (49c23c58257ff04) being 76.
ChecksumLen(checksum) ==
    IF checksum[2] \in
        {737, 4137, 5209, 6889, 7000}
    THEN 14
    ELSE IF checksum[2] \in
        {76, 88, 576, 597, 618, 621, 673, 708, 720, 749, 859, 865,
         868, 4104, 4113, 4120, 4122, 4140, 4168, 4176, 4177, 4236,
         4257, 4312, 4353, 4377, 4444, 4457, 4613, 4618, 4620, 4625,
         4641, 4643, 4689, 4691, 4692, 4715, 4752, 4804, 4868, 4909,
         4933, 4949, 4952, 5137, 5147, 5155, 5194, 5197, 5212, 5248,
         5280, 5283, 5290, 5322, 5376, 5460, 5633, 5669, 5701, 5730,
         5738, 5825, 5834, 5849, 5861, 5956, 5984, 5995, 6148, 6163,
         6187, 6212, 6249, 6306, 6369, 6464, 6488, 6504, 6696, 6741,
         6761, 6765, 6805, 6853, 6876, 6880, 6928, 6977, 7009, 7010}
    THEN 15
    ELSE 16

\* fs::metadata(..).len() of a metadata.json.  to_writer_pretty writes the
\* seven fields on 19 lines: 268 bytes of names, punctuation, indentation
\* and the two constant values, and the texts of the four coordinates, the
\* timestamp (10 digits, the seconds of a time between 2001 and 2286),
\* the checksum, the size and the download method.  Any other text has its
\* own length.
MetadataLen(content) ==
    IF IsGarbled(content) THEN content.len
    ELSE 268
         + CoordinateLen(content.bbox.min_lat)
         + CoordinateLen(content.bbox.min_lng)
         + CoordinateLen(content.bbox.max_lat)
         + CoordinateLen(content.bbox.max_lng)
         + 10 + ChecksumLen(content.osm_checksum)
         + Len(DecDigits(content.osm_data_size))
         + Len(content.download_method)

\* get_dir_size on a key directory: the lengths of its files, added up
get_dir_size(entry) ==
    (IF entry.osm.exists THEN Len(entry.osm.content) ELSE 0)
    + (IF entry.meta.exists THEN MetadataLen(entry.meta.content) ELSE 0)

\* the loop of get_cache_size over the key directories
RECURSIVE TotalSize(_, _)
TotalSize(dir, paths) ==
    IF paths = {} THEN 0
    ELSE LET path == CHOOSE k \in paths : TRUE
         IN  get_dir_size(dir[path]) + TotalSize(dir, paths \ {path})

get_cache_size(dir) == Ok(TotalSize(dir, Keys))

GetCacheSize ==
    /\ last' = [op |-> "get_cache_size", bbox |-> NoBBox,
                result |-> get_cache_size(cache_dir)]
    /\ UNCHANGED <<cache_dir, saved>>

\* the environment overwrites a stored payload file, as test_cache_integrity
\* does with fs::write; the metadata file is left alone
OverwritePayload(bbox, content) ==
    LET cache_key == CacheKey[bbox]
    IN  /\ cache_dir[cache_key].osm.exists
        /\ cache_dir' = [cache_dir EXCEPT ![cache_key].osm = File(content)]
        /\ saved' = [saved EXCEPT ![cache_key] =
                        IF @.made THEN SavedAs(@.data, @.metadata, FALSE)
                        ELSE @]
        /\ last' = [op |-> "fs::write", bbox |-> bbox, result |-> Ok(None)]

\* list_cached_areas, fs::read_dir giving the key directories in order
ListCachedAreas(order) ==
    /\ last' = [op |-> "list_cached_areas", bbox |-> NoBBox,
                result |-> list_cached_areas(cache_dir, order)]
    /\ UNCHANGED <<cache_dir, saved>>

\* the environment removes one of the two files of a key directory
RemoveFile(bbox, file) ==
    LET cache_key == CacheKey[bbox]
    IN  /\ cache_dir[cache_key][file].exists
        /\ cache_dir' = [cache_dir EXCEPT ![cache_key][file] = NoFile]
        /\ saved' = [saved EXCEPT ![cache_key] =
                        IF @.made THEN SavedAs(@.data, @.metadata, FALSE)
                        ELSE @]
        /\ last' = [op |-> "fs::remove_file", bbox |-> bbox,
                    result |-> Ok(None)]

\* the environment overwrites a metadata file with something that is not
\* the JSON of a CacheMetadata: "", or a text of 8 bytes
OverwriteMetadata(bbox) ==
    LET cache_key == CacheKey[bbox]
    IN  /\ cache_dir[cache_key].meta.exists
        /\ \E len \in {0, 8} :
              cache_dir' = [cache_dir EXCEPT
                               ![cache_key].meta = File(Garbled(len))]
        /\ saved' = [saved EXCEPT ![cache_key] =
                        IF @.made THEN SavedAs(@.data, @.metadata, FALSE)
                        ELSE @]
        /\ last' = [op |-> "fs::write metadata", bbox |-> bbox,
                    result |-> Ok(None)]

CacheNext ==
    \/ \E b \in BBoxes, p \in Payloads, m \in Methods :
          SaveOsmData(b, p, m, Now)
    \/ \E b \in BBoxes : LoadOsmData(b)
    \/ \E b \in BBoxes : HasCache(b)
    \/ \E b \in BBoxes : GetMetadata(b)
    \/ \E b \in BBoxes : ClearCache(b)
    \/ ClearAll
    \/ \E b \in BBoxes, p \in Payloads : OverwritePayload(b, p)

\* the payloads of the tests: "{}" and a longer one, told apart by length
DirPayloads == {<<>>, <<"x">>}

\* the cache with its listing, in a directory whose files the environment
\* removes or garbles one at a time
DirNext ==
    \/ \E b \in BBoxes, p \in DirPayloads :
          SaveOsmData(b, p, "requests", Now)
    \/ \E b \in BBoxes : LoadOsmData(b)
    \/ \E b \in BBoxes : HasCache(b)
    \/ \E b \in BBoxes : GetMetadata(b)
    \/ \E order \in DirOrders : ListCachedAreas(order)
    \/ GetCacheSize
    \/ \E b \in BBoxes : ClearCache(b)
    \/ ClearAll
    \/ \E b \in BBoxes, file \in {"osm", "meta"} : RemoveFile(b, file)
    \/ \E b \in BBoxes : OverwriteMetadata(b)

(***************************************************************************)
(* The chunk planner.  Coordinates, chunk sizes and overlaps are integer   *)
(* counts of one tick.  For the regions of Regions a tick is 2^-10 degree  *)
(* and the f64 sums, products and quotients of split_into_chunks are       *)
(* exact.  For the inputs of the tests a tick is 0.001 degree; there the   *)
(* f64 quotients that give the loop bounds are not the exact ones, see     *)
(* QuotientError, and a corner is given to the nearest tick, see           *)
(* CornerError.  LLBBox::new is called by split_into_chunks and defined    *)
(* in another crate: it refuses a minimum above its maximum, and whether   *)
(* it refuses a minimum equal to its maximum is llbbox_strict, the same    *)
(* for every call of a run.                                                *)
(***************************************************************************)
MaxExtent == 4
MaxChunkSize == 3
MaxOverlap == 2

\* LLBBox::new: the box, or an error when a minimum exceeds its maximum,
\* and in a strict build also when it equals it
LLBBox_new(min_lat, min_lng, max_lat, max_lng) ==
    IF /\ min_lat <= max_lat /\ min_lng <= max_lng
       /\ llbbox_strict => (min_lat < max_lat /\ min_lng < max_lng)
    THEN Ok(BBoxOf(min_lat, min_lng, max_lat, max_lng))
    ELSE Err("ConfigError")

\* WorkSettings::default()
DefaultSettings ==
    [scale |-> 1, terrain |-> FALSE, interior |-> TRUE, roof |-> TRUE,
     ground_level |-> -62]

SettingsSet == {DefaultSettings, [DefaultSettings EXCEPT !.terrain = TRUE]}

Min(a, b) == IF a <= b THEN a ELSE b

\* The f64 quotient (max - min) / chunk_size_degrees against the exact one.
\* The regions of Regions are read in ticks of a power of two of a degree
\* (2^-10), where the difference and the quotient are exact: 0.  For the
\* decimal inputs of the tests, in ticks of 0.001 degree, the exact
\* quotient is a whole number and the f64 one is not:
\*   (40.1 - 40.0) / 0.05     = 2.0000000000000284      above: 1
\*   (-73.9 - -74.0) / 0.05   = 1.9999999999998863      below: -1
\*   (40.01 - 40.0) / 0.01    = 0.999999999999801       below: -1
\*   (-73.99 - -74.0) / 0.01  = 1.0000000000005116      above: 1
\*   (40.02 - 40.0) / 0.01    = 2.0000000000003126      above: 1
\*   (-73.98 - -74.0) / 0.01  = 1.999999999999602       below: -1
\*   (10.1 - 10.0) / 0.05     = 1.999999999999993       below: -1
\*   (-122.35 - -122.4) / 0.05 = 1.0000000000002274     above: 1
QuotientError(min, max, size) ==
    IF <<min, max, size>> \in {<<40000, 40100, 50>>, <<-74000, -73990, 10>>,
                               <<40000, 40020, 10>>, <<-122400, -122350, 50>>}
    THEN 1
    ELSE IF <<min, max, size>> \in {<<-74000, -73900, 50>>,
                                    <<40000, 40010, 10>>,
                                    <<-74000, -73980, 10>>,
                                    <<10000, 10100, 50>>}
    THEN -1
    ELSE 0

\* The f64 sum min + idx * chunk_size_degrees against the exact one, where
\* the exact one is the region's maximum:
\*   40.0 + 2.0 * 0.05    = 40.1                  the same: 0
\*   -74.0 + 1.0 * 0.01   = -73.99                the same: 0
\*   40.0 + 2.0 * 0.01    = 40.02                 the same: 0
\*   -122.4 + 1.0 * 0.05  = -122.35000000000001   below: -1
CornerError(min, idx, size) ==
    IF <<min, idx, size>> = <<-122400, 1, 50>> THEN -1 ELSE 0

\* LLBBox::new on the f64 corners of a chunk, which the model has to the
\* nearest tick: a minimum that f64 puts just below the maximum is passed
\* as the tick before it
NewChunkBBox(min_lat, min_lng, max_lat, max_lng, lat_error, lng_error) ==
    LET new == LLBBox_new(
                   IF min_lat = max_lat /\ lat_error < 0
                   THEN min_lat - 1 ELSE min_lat,
                   IF min_lng = max_lng /\ lng_error < 0
                   THEN min_lng - 1 ELSE min_lng,
                   max_lat, max_lng)
    IN  IF new.ok THEN Ok(BBoxOf(min_lat, min_lng, max_lat, max_lng))
        ELSE new

\* (range / chunk_size_degrees).ceil() as usize with the quotient rounded
\* down
CeilAsUsizeFloor(range, size, error) ==
    IF size = 0 THEN [saturated |-> range > 0, count |-> 0]
    ELSE IF size < 0 THEN [saturated |-> FALSE, count |-> 0]
    ELSE [saturated |-> FALSE, count |-> range \div size]

\* (range / chunk_size_degrees).ceil() as usize, the cast saturating:
\* +inf becomes usize::MAX, NaN and every value <= 0 become 0.  A quotient
\* that f64 puts just above a whole number has the next one as its ceiling.
CeilAsUsize(range, size, error) ==
    IF size = 0 THEN [saturated |-> range > 0, count |-> 0]
    ELSE IF size < 0 THEN [saturated |-> FALSE, count |-> 0]
    ELSE [saturated |-> FALSE,
          count |-> IF range % size = 0 /\ error > 0
                    THEN range \div size + 1
                    ELSE (range + size - 1) \div size]

\* a chunk id made of the sum of the two indices
ChunkIdOfSum(lat_idx, lng_idx) == "chunk_" \o ToString(lat_idx + lng_idx)

\* format!("chunk_{}_{}", lat_idx, lng_idx)
ChunkId(lat_idx, lng_idx) ==
    "chunk_" \o ToString(lat_idx) \o "_" \o ToString(lng_idx)

\* the body of the inner loop, with the overlap also taken off the minimum
ChunkAtSymmetric(bbox, config, settings, lat_idx, lng_idx) ==
    LET chunk_min_lat == bbox.min_lat + lat_idx * config.chunk_size_degrees
                         - config.overlap_degrees
        chunk_min_lng == bbox.min_lng + lng_idx * config.chunk_size_degrees
                         - config.overlap_degrees
        chunk_max_lat == Min(chunk_min_lat + config.chunk_size_degrees
                             + 2 * config.overlap_degrees, bbox.max_lat)
        chunk_max_lng == Min(chunk_min_lng + config.chunk_size_degrees
                             + 2 * config.overlap_degrees, bbox.max_lng)
        chunk_bbox    == LLBBox_new(chunk_min_lat, chunk_min_lng,
                                    chunk_max_lat, chunk_max_lng)
    IN  IF chunk_bbox.ok
        THEN <<[chunk_id |-> ChunkId(lat_idx, lng_idx),
                bbox |-> chunk_bbox.value, settings |-> settings]>>
        ELSE <<>>

\* the body of the inner loop: the work unit pushed for one grid position,
\* or nothing when LLBBox::new refuses its corners
ChunkAt(bbox, config, settings, lat_idx, lng_idx) ==
    LET chunk_min_lat == bbox.min_lat + lat_idx * config.chunk_size_degrees
        chunk_min_lng == bbox.min_lng + lng_idx * config.chunk_size_degrees
        chunk_max_lat == Min(chunk_min_lat + config.chunk_size_degrees
                             + config.overlap_degrees, bbox.max_lat)
        chunk_max_lng == Min(chunk_min_lng + config.chunk_size_degrees
                             + config.overlap_degrees, bbox.max_lng)
        chunk_bbox    ==
            NewChunkBBox(chunk_min_lat, chunk_min_lng,
                         chunk_max_lat, chunk_max_lng,
                         CornerError(bbox.min_lat, lat_idx,
                                     config.chunk_size_degrees),
                         CornerError(bbox.min_lng, lng_idx,
                                     config.chunk_size_degrees))
    IN  IF chunk_bbox.ok
        THEN <<[chunk_id |-> ChunkId(lat_idx, lng_idx),
                bbox |-> chunk_bbox.value, settings |-> settings]>>
        ELSE <<>>

\* for lng_idx in from..num_lng_chunks
RECURSIVE LngLoop(_, _, _, _, _, _)
LngLoop(bbox, config, settings, lat_idx, lng_idx, num_lng_chunks) ==
    IF lng_idx >= num_lng_chunks THEN <<>>
    ELSE ChunkAt(bbox, config, settings, lat_idx, lng_idx)
         \o LngLoop(bbox, config, settings, lat_idx, lng_idx + 1, num_lng_chunks)

\* for lat_idx in from..num_lat_chunks
RECURSIVE LatLoop(_, _, _, _, _, _)
LatLoop(bbox, config, settings, lat_idx, num_lat_chunks, num_lng_chunks) ==
    IF lat_idx >= num_lat_chunks THEN <<>>
    ELSE LngLoop(bbox, config, settings, lat_idx, 0, num_lng_chunks)
         \o LatLoop(bbox, config, settings, lat_idx + 1, num_lat_chunks,
                    num_lng_chunks)

\* the loops with the longitude index outermost
RECURSIVE LngMajorLoop(_, _, _, _, _, _)
LngMajorLoop(bbox, config, settings, lng_idx, num_lat_chunks, num_lng_chunks) ==
    IF lng_idx >= num_lng_chunks THEN <<>>
    ELSE LET RECURSIVE Col(_)
             Col(lat_idx) ==
                 IF lat_idx >= num_lat_chunks THEN <<>>
                 ELSE ChunkAt(bbox, config, settings, lat_idx, lng_idx)
                      \o Col(lat_idx + 1)
         IN  Col(0) \o LngMajorLoop(bbox, config, settings, lng_idx + 1,
                                    num_lat_chunks, num_lng_chunks)

\* the loops with the latitude range inclusive, 0..=num_lat_chunks
GenerateChunksInclusive(bbox, config, settings, num_lat_chunks, num_lng_chunks) ==
    LatLoop(bbox, config, settings, 0, num_lat_chunks + 1, num_lng_chunks)

\* the loops with the longitude index outermost
GenerateChunksLngMajor(bbox, config, settings, num_lat_chunks, num_lng_chunks) ==
    LngMajorLoop(bbox, config, settings, 0, num_lat_chunks, num_lng_chunks)

\* the two nested loops of split_into_chunks
GenerateChunks(bbox, config, settings, num_lat_chunks, num_lng_chunks) ==
    LatLoop(bbox, config, settings, 0, num_lat_chunks, num_lng_chunks)

\* What a call of split_into_chunks does.  It has no error to return: it
\* returns the vector of work units, or, when a loop bound is usize::MAX,
\* does not return (the loops run for 2^64 rounds, pushing until memory is
\* exhausted).
split_into_chunks(bbox, config, settings) ==
    LET lat_range      == bbox.max_lat - bbox.min_lat
        lng_range      == bbox.max_lng - bbox.min_lng
        num_lat_chunks ==
            CeilAsUsize(lat_range, config.chunk_size_degrees,
                        QuotientError(bbox.min_lat, bbox.max_lat,
                                      config.chunk_size_degrees))
        num_lng_chunks ==
            CeilAsUsize(lng_range, config.chunk_size_degrees,
                        QuotientError(bbox.min_lng, bbox.max_lng,
                                      config.chunk_size_degrees))
    IN  IF num_lat_chunks.saturated
           \/ (num_lat_chunks.count > 0 /\ num_lng_chunks.saturated)
        THEN [returned |-> FALSE, error |-> None, units |-> <<>>]
        ELSE [returned |-> TRUE, error |-> None,
              units |-> GenerateChunks(bbox, config, settings,
                                       num_lat_chunks.count,
                                       num_lng_chunks.count)]

\* test_split_into_chunks, one tick read as 0.001 degree:
\* (40.0,-74.0)-(40.1,-73.9), chunk size 0.05, overlap 0.001
TestCall ==
    [bbox |-> BBoxOf(40000, -74000, 40100, -73900),
     config |-> [chunk_size_degrees |-> 50, overlap_degrees |-> 1],
     settings |-> DefaultSettings]

\* ChunkConfig::default(): chunks of 0.01 degree, 0.001 degree of overlap
DefaultChunkConfig == [chunk_size_degrees |-> 10, overlap_degrees |-> 1]

\* test_chunk_with_default_config: (40.0,-74.0)-(40.01,-73.99)
DefaultConfigCall ==
    [bbox |-> BBoxOf(40000, -74000, 40010, -73990),
     config |-> DefaultChunkConfig, settings |-> DefaultSettings]

\* test_chunk_stats: (40.0,-74.0)-(40.02,-73.98)
ChunkStatsCall ==
    [bbox |-> BBoxOf(40000, -74000, 40020, -73980),
     config |-> DefaultChunkConfig, settings |-> DefaultSettings]

\* a region whose longitude extent is one chunk size, where f64 makes a
\* second column from -122.35000000000001 to -122.35:
\* (10.0,-122.4)-(10.1,-122.35), chunk size 0.05, overlap 0.001
SliverCall ==
    [bbox |-> BBoxOf(10000, -122400, 10100, -122350),
     config |-> [chunk_size_degrees |-> 50, overlap_degrees |-> 1],
     settings |-> DefaultSettings]

Regions ==
    {BBoxOf(lat, lng, lat + h, lng + w) :
        lat \in {-2, 1}, lng \in {-3, 0}, h \in 1..MaxExtent, w \in 1..MaxExtent}

Calls ==
    {TestCall, DefaultConfigCall, ChunkStatsCall, SliverCall} \cup
    [bbox : Regions,
     config : [chunk_size_degrees : -1..MaxChunkSize,
               overlap_degrees : 0..MaxOverlap],
     settings : SettingsSet]

NotCalled == [returned |-> FALSE, error |-> "not called", units |-> <<>>]

ChunkInit ==
    /\ call \in Calls
    /\ llbbox_strict \in BOOLEAN
    /\ chunks = NotCalled
    /\ again = NotCalled

Split ==
    /\ chunks = NotCalled
    /\ chunks' = split_into_chunks(call.bbox, call.config, call.settings)
    /\ UNCHANGED <<call, again, llbbox_strict>>

\* a second call with the arguments of the first
SplitAgain ==
    /\ chunks # NotCalled
    /\ again = NotCalled
    /\ again' = split_into_chunks(call.bbox, call.config, call.settings)
    /\ UNCHANGED <<call, chunks, llbbox_strict>>

ChunkNext == Split \/ SplitAgain

(***************************************************************************)
(* The coordinator.  work_unit.rs and protocol.rs declare its data: the    *)
(* WorkStatus enum, the per-chunk status map of StatusResponse, the        *)
(* WorkerStatus record and the request/response pairs.  The handlers that  *)
(* move a chunk through its lifecycle follow sections 4.2, 4.3 and 5 of    *)
(* the specification.                                                      *)
(***************************************************************************)
NumCoordChunks == 2

WorkStatus == {"Pending", "Assigned", "InProgress", "Completed", "Failed"}

\* the work units the coordinator distributes: one partition run
CoordUnits ==
    split_into_chunks(BBoxOf(0, 0, 1, NumCoordChunks),
                      [chunk_size_degrees |-> 1, overlap_degrees |-> 0],
                      DefaultSettings).units

ChunkIds == {CoordUnits[i].chunk_id : i \in 1..Len(CoordUnits)}

WorkerIds == {"worker-1", "worker-2"}

\* WorkerCapabilities, as test_register_worker_serialization builds one
CapabilitySet == {[os |-> "linux", cpu_cores |-> 8, memory_gb |-> 16]}

NoCapabilities == [os |-> None, cpu_cores |-> 0, memory_gb |-> 0]

Unregistered ==
    [registered |-> FALSE, capabilities |-> NoCapabilities,
     current_chunk |-> None, chunks_completed |-> 0]

\* a transition table that also lets an Assigned chunk be completed
LegalTransitionSkip(from, to) ==
    <<from, to>> \in {<<"Pending", "Assigned">>, <<"Assigned", "InProgress">>,
                      <<"InProgress", "Completed">>, <<"InProgress", "Failed">>,
                      <<"Assigned", "Completed">>, <<"Assigned", "Failed">>}

\* a transition table that also lets a terminal chunk be started again
LegalTransitionReopen(from, to) ==
    <<from, to>> \in {<<"Pending", "Assigned">>, <<"Assigned", "InProgress">>,
                      <<"InProgress", "Completed">>, <<"InProgress", "Failed">>,
                      <<"Completed", "InProgress">>, <<"Failed", "InProgress">>}

\* the transition table: Pending -> Assigned -> InProgress -> Completed | Failed
LegalTransition(from, to) ==
    <<from, to>> \in {<<"Pending", "Assigned">>, <<"Assigned", "InProgress">>,
                      <<"InProgress", "Completed">>, <<"InProgress", "Failed">>}

\* the claim without the comparison: the chunk is taken whatever its status
ClaimBlind(st, chunk_id) == TRUE

\* the atomic claim of a chunk: compare-and-swap from Pending
ClaimPending(st, chunk_id) == LegalTransition(st[chunk_id], "Assigned")

\* ownership test that lets any worker report for any chunk
HeldByAnyone(hold, chunk_id, worker_id) == TRUE

\* whether chunk_id is the chunk that worker_id was given
HeldBy(hold, chunk_id, worker_id) == hold[chunk_id] = worker_id

Response(op, worker_id, chunk_id, to, outcome, unit) ==
    [op |-> op, worker |-> worker_id, chunk |-> chunk_id, to |-> to,
     outcome |-> outcome, unit |-> unit]

CoordInit ==
    /\ status = [c \in ChunkIds |-> "Pending"]
    /\ holder = [c \in ChunkIds |-> None]
    /\ workers = [w \in WorkerIds |-> Unregistered]
    /\ scan = [w \in WorkerIds |-> None]
    /\ handed = [c \in ChunkIds |-> {}]
    /\ reply = Response("new", None, None, None, "ok", None)

\* RegisterWorker: idempotent, a second registration updates capabilities
RegisterWorker(w, capabilities) ==
    /\ workers' = [workers EXCEPT ![w].registered = TRUE,
                                  ![w].capabilities = capabilities]
    /\ reply' = Response("RegisterWorker", w, None, None, "registered", None)
    /\ UNCHANGED <<status, holder, scan, handed>>

\* RequestWork, first half: the handler looks for a Pending chunk
FindPending(w) ==
    /\ workers[w].registered
    /\ workers[w].current_chunk = None
    /\ scan[w] = None
    /\ \E c \in ChunkIds :
          /\ status[c] = "Pending"
          /\ scan' = [scan EXCEPT ![w] = c]
          /\ reply' = Response("RequestWork", w, c, "Assigned", "scanning", None)
    /\ UNCHANGED <<status, holder, workers, handed>>

\* RequestWork with nothing to give: an absent work unit, not an error
NoWorkAvailable(w) ==
    /\ scan[w] = None
    /\ \/ ~workers[w].registered
       \/ workers[w].current_chunk # None
       \/ \A c \in ChunkIds : status[c] # "Pending"
    /\ reply' = Response("RequestWork", w, None, None, "no work", None)
    /\ UNCHANGED <<status, holder, workers, scan, handed>>

\* RequestWork, second half: the atomic claim of the chunk found.  Another
\* worker may have taken it since; then the response carries no work unit.
ClaimChunk(w) ==
    /\ scan[w] # None
    /\ LET c == scan[w]
       IN  IF ClaimPending(status, c)
           THEN /\ status' = [status EXCEPT ![c] = "Assigned"]
                /\ holder' = [holder EXCEPT ![c] = w]
                /\ workers' = [workers EXCEPT ![w].current_chunk = c]
                /\ handed' = [handed EXCEPT ![c] = @ \cup {w}]
                /\ reply' = Response("RequestWork", w, c, "Assigned", "ok", c)
           ELSE /\ reply' = Response("RequestWork", w, c, "Assigned",
                                     "TransitionError", None)
                /\ UNCHANGED <<status, holder, workers, handed>>
    /\ scan' = [scan EXCEPT ![w] = None]

\* the worker reports that it has started the chunk
ReportProgress(w, c) ==
    /\ IF ~LegalTransition(status[c], "InProgress")
       THEN /\ reply' = Response("ReportProgress", w, c, "InProgress",
                                 "TransitionError", None)
            /\ UNCHANGED status
       ELSE IF ~HeldBy(holder, c, w)
       THEN /\ reply' = Response("ReportProgress", w, c, "InProgress",
                                 "rejected", None)
            /\ UNCHANGED status
       ELSE /\ status' = [status EXCEPT ![c] = "InProgress"]
            /\ reply' = Response("ReportProgress", w, c, "InProgress", "ok", None)
    /\ UNCHANGED <<holder, workers, scan, handed>>

\* SubmitResult: worker w submits a WorkResult for chunk c with status to;
\* next is the work unit piggybacked on an accepted submission, if any
SubmitResult(w, c, to, next) ==
    IF ~LegalTransition(status[c], to)
    THEN /\ next = None
         /\ reply' = Response("SubmitResult", w, c, to, "TransitionError", None)
         /\ UNCHANGED <<status, holder, workers, scan, handed>>
    ELSE IF ~HeldBy(holder, c, w) \/ to \notin {"Completed", "Failed"}
    THEN /\ next = None
         /\ reply' = Response("SubmitResult", w, c, to, "rejected", None)
         /\ UNCHANGED <<status, holder, workers, scan, handed>>
    ELSE /\ next # None => ClaimPending(status, next)
         /\ status' = [x \in ChunkIds |->
                          IF x = c THEN to
                          ELSE IF x = next THEN "Assigned" ELSE status[x]]
         /\ holder' = [x \in ChunkIds |-> IF x = next THEN w ELSE holder[x]]
         /\ handed' = [x \in ChunkIds |->
                          IF x = next THEN handed[x] \cup {w} ELSE handed[x]]
         /\ workers' = [workers EXCEPT
                           ![w].current_chunk = next,
                           ![w].chunks_completed =
                               IF to = "Completed" THEN @ + 1 ELSE @]
         /\ reply' = Response("SubmitResult", w, c, to, "accepted", next)
         /\ UNCHANGED scan

CoordNext ==
    \/ \E w \in WorkerIds, caps \in CapabilitySet : RegisterWorker(w, caps)
    \/ \E w \in WorkerIds : FindPending(w)
    \/ \E w \in WorkerIds : NoWorkAvailable(w)
    \/ \E w \in WorkerIds : ClaimChunk(w)
    \/ \E w \in WorkerIds, c \in ChunkIds : ReportProgress(w, c)
    \/ \E w \in WorkerIds, c \in ChunkIds, to \in WorkStatus,
          next \in ChunkIds \cup {None} : SubmitResult(w, c, to, next)

(***************************************************************************)
(* retrieve_data.rs: the download with its single fallback, and the three  *)
(* flows in front of the cache.  A call runs from its start to the first   *)
(* download, and from the end of one download to the next or to its        *)
(* return.  A text is a sequence of bytes: "{" and "}" open and close a    *)
(* JSON document, "e" is one member of its "elements" array, " " is        *)
(* insignificant white space and "x" is a byte no JSON document has.       *)
(***************************************************************************)
ApiServers ==
    {"https://overpass-api.de/api/interpreter",
     "https://lz4.overpass-api.de/api/interpreter",
     "https://z.overpass-api.de/api/interpreter"}

FallbackApiServers ==
    {"https://maps.mail.ru/osm/tools/overpass/api/interpreter"}

MaxAttempts == 1

\* the boxes the flows are called with
FetchBoxes ==
    { BBoxOf(400000000, -740000000, 410000000, -730000000),
      BBoxOf(500000000, -840000000, 510000000, -830000000) }

\* what a server can do with a request: fail, or answer with a body
ServerFails == [answered |-> FALSE]
ServerSends(body) == [answered |-> TRUE, body |-> body]

ResponseBodies ==
    { <<>>, <<"x">>, <<"{", "}">>, <<"{", "e", "}">>, <<"{", " ", "e", "}">> }

ServerReplies == {ServerFails} \cup {ServerSends(b) : b \in ResponseBodies}

\* download_with_reqwest: an empty body is an error
download_with_reqwest(server) ==
    IF ~server.answered THEN Err("NetworkError")
    ELSE IF server.body = <<>> THEN Err("NetworkError")
    ELSE Ok(server.body)

\* download_with_curl: the output of the command, an empty one too
download_with_curl(server) ==
    IF ~server.answered THEN Err("NetworkError") ELSE Ok(server.body)

\* download_with_wget: as with curl, the output of the command
download_with_wget(server) ==
    IF ~server.answered THEN Err("NetworkError") ELSE Ok(server.body)

\* match download_method: requests, curl, wget, and requests for any other
download(download_method, server) ==
    IF download_method = "curl" THEN download_with_curl(server)
    ELSE IF download_method = "wget" THEN download_with_wget(server)
    ELSE download_with_reqwest(server)

RECURSIVE CountElements(_)
CountElements(text) ==
    IF text = <<>> THEN 0
    ELSE (IF Head(text) = "e" THEN 1 ELSE 0) + CountElements(Tail(text))

\* the text without the white space at its beginning and at its end
RECURSIVE TrimWhitespace(_)
TrimWhitespace(text) ==
    IF text = <<>> THEN text
    ELSE IF Head(text) = " " THEN TrimWhitespace(Tail(text))
    ELSE IF text[Len(text)] = " "
    THEN TrimWhitespace(SubSeq(text, 1, Len(text) - 1))
    ELSE text

\* serde_json::from_str: the Value of a document, white space before and
\* after it skipped, an error for anything else
from_str(text) ==
    LET document == TrimWhitespace(text)
    IN  IF /\ Len(document) >= 2
           /\ document[1] = "{"
           /\ document[Len(document)] = "}"
           /\ \A i \in 2..(Len(document) - 1) : document[i] \in {"e", " "}
        THEN Ok([elements |-> CountElements(document)])
        ELSE Err("SerializationError")

\* serde_json::to_string: the document without white space
to_string(data) ==
    <<"{">> \o [i \in 1..data.elements |-> "e"] \o <<"}">>

\* the retry test of the download loop, with one more round allowed
RetryExhaustedLate(attempt) == attempt > MaxAttempts

\* if attempt >= max_attempts { return Err(error) }
RetryExhausted(attempt) == attempt >= MaxAttempts

\* fetch_data_from_overpass after its download loop: parse the response,
\* refuse a document without elements
ParseResponse(response, gui) ==
    LET data == from_str(response)
    IN  IF ~data.ok THEN data
        ELSE IF data.value.elements = 0
        THEN (IF gui THEN Err("Data fetch failed") ELSE Err("exit(1)"))
        ELSE data

\* the () of Ok(()), and the result of a call that has not returned
Unit == [unit |-> TRUE]
NoResult == [ok |-> FALSE, error |-> "pending"]

\* no call made: the fields of a call, empty
NoFetch ==
    [pc |-> "idle", op |-> None, bbox |-> NoBBox,
     download_method |-> None,
     use_cache |-> FALSE, attempt |-> 0, url |-> None, urls |-> <<>>,
     outcomes |-> <<>>, hit |-> FALSE, cache_writes |-> 0,
     cached_before |-> FALSE, fetched |-> NoResult,
     result |-> NoResult]

\* a call that has reached its first download; cached_before keeps whether
\* the box had an entry when the call was made, and fetched will keep what
\* fetch_data_from_overpass made of the response
Downloading(op, bbox, download_method, use_cache, url) ==
    [pc |-> "downloading", op |-> op, bbox |-> bbox,
     download_method |-> download_method, use_cache |-> use_cache,
     attempt |-> 0, url |-> url, urls |-> <<url>>,
     outcomes |-> <<>>, hit |-> FALSE, cache_writes |-> 0,
     cached_before |-> has_cache(cache_dir, bbox), fetched |-> NoResult,
     result |-> NoResult]

\* a call that returned without a download
Returned(op, bbox, use_cache, hit, result) ==
    [pc |-> "done", op |-> op, bbox |-> bbox, download_method |-> None,
     use_cache |-> use_cache, attempt |-> 0, url |-> None, urls |-> <<>>,
     outcomes |-> <<>>, hit |-> hit, cache_writes |-> 0,
     cached_before |-> has_cache(cache_dir, bbox), fetched |-> NoResult,
     result |-> result]

FetchInit == fetch = NoFetch

\* fetch_data_from_overpass(bbox, debug, download_method, None)
CallFetchFromOverpass(bbox, download_method) ==
    /\ fetch.pc # "downloading"
    /\ \E url \in ApiServers :
          fetch' = Downloading("fetch_data_from_overpass", bbox,
                               download_method, FALSE, url)
    /\ UNCHANGED cacheVars

\* the cached payload read and parsed
LoadAndParse(dir, bbox) ==
    LET data_str == load_osm_data(dir, bbox)
    IN  IF ~data_str.ok THEN data_str ELSE from_str(data_str.value)

\* fetch_data_with_cache that does not ask the cache before it downloads
CallFetchAlwaysDownloads(bbox, download_method, use_cache) ==
    /\ fetch.pc # "downloading"
    /\ \E url \in ApiServers :
          fetch' = Downloading("fetch_data_with_cache", bbox,
                               download_method, use_cache, url)
    /\ UNCHANGED cacheVars

\* fetch_data_with_cache that downloads when the entry it found is no good
CallFetchFallsBack(bbox, download_method, use_cache) ==
    /\ fetch.pc # "downloading"
    /\ IF /\ use_cache
          /\ has_cache(cache_dir, bbox)
          /\ LoadAndParse(cache_dir, bbox).ok
       THEN fetch' = Returned("fetch_data_with_cache", bbox, use_cache, TRUE,
                              LoadAndParse(cache_dir, bbox))
       ELSE \E url \in ApiServers :
               fetch' = Downloading("fetch_data_with_cache", bbox,
                                    download_method, use_cache, url)
    /\ UNCHANGED cacheVars

\* fetch_data_with_cache(bbox, debug, download_method, use_cache), up to its
\* return on a hit or to its first download
CallFetchWithCache(bbox, download_method, use_cache) ==
    /\ fetch.pc # "downloading"
    /\ IF use_cache /\ has_cache(cache_dir, bbox)
       THEN fetch' = Returned("fetch_data_with_cache", bbox, use_cache, TRUE,
                              LoadAndParse(cache_dir, bbox))
       ELSE \E url \in ApiServers :
               fetch' = Downloading("fetch_data_with_cache", bbox,
                                    download_method, use_cache, url)
    /\ UNCHANGED cacheVars

\* download_only that leaves a box alone when the cache has an entry for it
CallDownloadOnlyIfMissing(bbox, download_method) ==
    /\ fetch.pc # "downloading"
    /\ IF has_cache(cache_dir, bbox)
       THEN fetch' = Returned("download_only", bbox, TRUE, TRUE, Ok(Unit))
       ELSE \E url \in ApiServers :
               fetch' = Downloading("download_only", bbox, download_method,
                                    TRUE, url)
    /\ UNCHANGED cacheVars

\* download_only(bbox, debug, download_method), up to its first download
CallDownloadOnly(bbox, download_method) ==
    /\ fetch.pc # "downloading"
    /\ \E url \in ApiServers :
          fetch' = Downloading("download_only", bbox, download_method,
                               TRUE, url)
    /\ UNCHANGED cacheVars

\* the error of load_from_cache: "No cached data found for this bounding
\* box. Run download-only mode first."
NoCachedData == Err("NotFound: run download-only mode first")

\* load_from_cache without its has_cache test
load_from_cache_unguarded(dir, bbox) ==
    LET data     == LoadAndParse(dir, bbox)
        metadata == load_metadata(dir, CacheKey[bbox])
    IN  IF ~data.ok THEN data
        ELSE IF ~metadata.ok THEN metadata
        ELSE data

\* load_from_cache(bbox)
load_from_cache(dir, bbox) ==
    LET data     == LoadAndParse(dir, bbox)
        metadata == load_metadata(dir, CacheKey[bbox])
    IN  IF ~has_cache(dir, bbox) THEN NoCachedData
        ELSE IF ~data.ok THEN data
        ELSE IF ~metadata.ok THEN metadata
        ELSE data

CallLoadFromCache(bbox) ==
    /\ fetch.pc # "downloading"
    /\ fetch' = Returned("load_from_cache", bbox, TRUE,
                         has_cache(cache_dir, bbox),
                         load_from_cache(cache_dir, bbox))
    /\ UNCHANGED cacheVars

\* a return that, when a cached call has failed, leaves an entry with an
\* empty payload behind
FinishWithPlaceholder(f, result) ==
    /\ fetch' = [f EXCEPT !.pc = "done", !.result = result]
    /\ cache_dir' =
           IF ~result.ok /\ f.use_cache
           THEN save_osm_data(cache_dir, f.bbox, <<>>, f.download_method,
                              Now).dir
           ELSE cache_dir
    /\ UNCHANGED <<saved, last>>

\* the call, its downloads being as in f, returns result, having written
\* nothing
FinishWithout(f, result) ==
    /\ fetch' = [f EXCEPT !.pc = "done", !.result = result]
    /\ UNCHANGED cacheVars

\* the call returns the data it fetched without saving it
FinishWithoutSave(f, data) ==
    /\ fetch' = [f EXCEPT !.pc = "done", !.result = Ok(data)]
    /\ UNCHANGED cacheVars

\* the call saves the data it fetched and returns
FinishWithSave(f, data) ==
    LET cache_key == CacheKey[f.bbox]
        done      == save_osm_data(cache_dir, f.bbox, to_string(data),
                                   f.download_method, Now)
    IN  /\ cache_dir' = done.dir
        /\ saved' = [saved EXCEPT
                        ![cache_key] = SavedAs(to_string(data),
                                               done.result.value, TRUE)]
        /\ fetch' = [f EXCEPT
                        !.pc = "done", !.cache_writes = @ + 1,
                        !.result = IF f.op = "download_only"
                                   THEN Ok(Unit) ELSE Ok(data)]
        /\ UNCHANGED last

\* the download in flight ends: the loop of fetch_data_from_overpass goes
\* round once more or the call runs on to its return
DownloadEnds(server, gui) ==
    /\ fetch.pc = "downloading"
    /\ LET result == download(fetch.download_method, server)
           f      == [fetch EXCEPT
                         !.outcomes = Append(@, IF result.ok THEN "ok"
                                                ELSE "failed")]
       IN  IF ~result.ok
           THEN IF RetryExhausted(fetch.attempt)
                THEN FinishWithout(f, result)
                ELSE /\ \E url \in FallbackApiServers :
                           fetch' = [f EXCEPT !.url = url,
                                              !.urls = Append(@, url),
                                              !.attempt = @ + 1]
                     /\ UNCHANGED cacheVars
           ELSE LET data == ParseResponse(result.value, gui)
                    g    == [f EXCEPT !.fetched = data]
                IN  IF ~data.ok THEN FinishWithout(g, data)
                    ELSE IF fetch.use_cache THEN FinishWithSave(g, data.value)
                    ELSE FinishWithout(g, data)

\* fetch_data_from_overpass called on its own
FetchNext ==
    \/ \E b \in FetchBoxes, m \in Methods \cup {"wget"} :
          CallFetchFromOverpass(b, m)
    \/ \E server \in ServerReplies, gui \in BOOLEAN : DownloadEnds(server, gui)

\* between two calls, another run of the program or the user changes the
\* cache
CacheChanges ==
    /\ fetch.pc # "downloading"
    /\ fetch' = NoFetch
    /\ \/ \E b \in FetchBoxes : ClearCache(b)
       \/ \E b \in FetchBoxes, p \in Payloads : OverwritePayload(b, p)

\* what other users of AssetCache store: a text that is no JSON document,
\* one that is, and one with white space before the document
StoredTexts == {<<"x">>, <<"{", "e", "}">>, <<" ", "{", "e", "}">>}

\* between two calls, another user of the cache directory saves an entry,
\* or overwrites the payload or the metadata of one
CacheDamaged ==
    /\ fetch.pc # "downloading"
    /\ fetch' = NoFetch
    /\ \/ \E b \in FetchBoxes, p \in StoredTexts :
             SaveOsmData(b, p, "requests", Now)
       \/ \E b \in FetchBoxes, p \in StoredTexts : OverwritePayload(b, p)
       \/ \E b \in FetchBoxes : OverwriteMetadata(b)

\* fetch_data_with_cache in front of such a cache
DamagedNext ==
    \/ \E b \in FetchBoxes : CallFetchWithCache(b, "requests", TRUE)
    \/ \E server \in ServerReplies, gui \in BOOLEAN : DownloadEnds(server, gui)
    \/ CacheDamaged

\* the replies of a server that also has a document of two elements and
\* one that ends its document with white space
MoreReplies ==
    ServerReplies \cup {ServerSends(<<"{", "e", "e", "}">>),
                        ServerSends(<<"{", "e", "}", " ">>)}

\* download_only, and load_from_cache after it
DownloadOnlyNext ==
    \/ \E b \in FetchBoxes, m \in Methods \cup {"wget"} :
          CallDownloadOnly(b, m)
    \/ \E b \in FetchBoxes : CallLoadFromCache(b)
    \/ \E server \in MoreReplies, gui \in BOOLEAN : DownloadEnds(server, gui)

RetrieveNext ==
    \/ \E b \in FetchBoxes, m \in Methods, use_cache \in BOOLEAN :
          CallFetchWithCache(b, m, use_cache)
    \/ \E b \in FetchBoxes, m \in Methods : CallDownloadOnly(b, m)
    \/ \E b \in FetchBoxes : CallLoadFromCache(b)
    \/ \E server \in ServerReplies, gui \in BOOLEAN : DownloadEnds(server, gui)
    \/ CacheChanges

(***************************************************************************)
(* WorkResult on the wire.  The struct derives Serialize and Deserialize   *)
(* and has public fields: a WorkResult is made by a struct literal or by   *)
(* serde_json::from_str, and neither looks at how the fields go together.  *)
(* A JSON value is tagged with its kind; processing_time counts tenths of  *)
(* a second.                                                               *)
(***************************************************************************)
JMissing == [t |-> "missing"]
JNull == [t |-> "null"]
JStr(v) == [t |-> "str", v |-> v]
JNum(v) == [t |-> "num", v |-> v]

String_from_json(j) ==
    IF j.t = "str" THEN Ok(j.v) ELSE Err("SerializationError")

\* an Option: Some(v), or the None of its type
Some(v) == [some |-> TRUE, value |-> v]
NoString == [some |-> FALSE, value |-> ""]

\* Option<String>: an absent field and null both read as None, a string,
\* the string "None" too, as Some
OptionString_from_json(j) ==
    IF j.t \in {"missing", "null"} THEN Ok(NoString)
    ELSE IF j.t = "str" THEN Ok(Some(j.v))
    ELSE Err("SerializationError")

\* the unit variants of WorkStatus are written as their names
WorkStatus_from_json(j) ==
    IF j.t = "str" /\ j.v \in WorkStatus THEN Ok(j.v)
    ELSE Err("SerializationError")

f64_from_json(j) ==
    IF j.t = "num" THEN Ok(j.v) ELSE Err("SerializationError")

\* serde_json::from_str::<WorkResult>: field by field, nothing else
WorkResult_from_json(obj) ==
    LET chunk_id        == String_from_json(obj.chunk_id)
        st              == WorkStatus_from_json(obj.status)
        result_location == OptionString_from_json(obj.result_location)
        error           == OptionString_from_json(obj.error)
        processing_time == f64_from_json(obj.processing_time)
    IN  IF chunk_id.ok /\ st.ok /\ result_location.ok /\ error.ok
           /\ processing_time.ok
        THEN Ok([chunk_id |-> chunk_id.value, status |-> st.value,
                 result_location |-> result_location.value,
                 error |-> error.value,
                 processing_time |-> processing_time.value])
        ELSE Err("SerializationError")

OptionString_to_json(o) == IF o.some THEN JStr(o.value) ELSE JNull

\* serde_json::to_string(&WorkResult): every field written, None as null
WorkResult_to_json(r) ==
    [chunk_id |-> JStr(r.chunk_id), status |-> JStr(r.status),
     result_location |-> OptionString_to_json(r.result_location),
     error |-> OptionString_to_json(r.error),
     processing_time |-> JNum(r.processing_time)]

\* the objects a peer can send: the fields of test_work_result_serialization
\* and of the failure case, in every combination, a field left out, a
\* status name the enum does not have, and an error text that reads "None"
WireObjects ==
    [chunk_id : {JStr("chunk_0_0"), JMissing},
     status : {JStr(st) : st \in WorkStatus \cup {"Done"}},
     result_location : {JMissing, JNull, JStr("/path/to/result.mca")},
     error : {JNull, JStr("out of memory"), JStr("None")},
     processing_time : {JNum(425), JNum(-10)}]

\* the WorkResult of test_work_result_serialization
TestResult ==
    [chunk_id |-> "chunk_0_0", status |-> "Completed",
     result_location |-> Some("/path/to/result.mca"), error |-> NoString,
     processing_time |-> 425]

NotDecoded == [ok |-> FALSE, error |-> "not decoded"]

WireInit ==
    /\ wire \in WireObjects
    /\ decoded = NotDecoded

Deserialize ==
    /\ decoded = NotDecoded
    /\ decoded' = WorkResult_from_json(wire)
    /\ UNCHANGED wire

\* the record read is written out again
Serialize ==
    /\ decoded.ok
    /\ wire' = WorkResult_to_json(decoded.value)
    /\ UNCHANGED decoded

WireNext == Deserialize \/ Serialize

(***************************************************************************)
(* perf_config.rs: the PerformanceConfig behind the PERF_CONFIG mutex.     *)
(* Memory is counted in whole gigabytes.  A setter runs under the lock of  *)
(* update_config, so it is one step.  An Option is a record that says      *)
(* whether it holds a value.                                               *)
(***************************************************************************)
MaxCpus == 3
MaxRamSteps == 3
DEFAULT_MAX_RAM_GB == 16

SimdCapability == {"None", "Neon", "Avx2", "Avx512"}

\* what PlatformInfo::detect can find: at least one CPU, some memory
PlatformInfos ==
    [logical_cpus : 1..MaxCpus,
     total_memory_gb : {8 * k : k \in 1..MaxRamSteps},
     simd_capability : SimdCapability]

\* the overrides a user can ask for: an f64 of either sign, a usize, a bool
RamOverrides == {4 * k : k \in -1..(2 * MaxRamSteps + 1)}
ThreadsOverrides == 0..(MaxCpus + 1)

NoNumber == [some |-> FALSE, value |-> 0]
NoFlag == [some |-> FALSE, value |-> FALSE]

init_default(platform_info) ==
    [effective_ram_gb |->
         Min(platform_info.total_memory_gb, DEFAULT_MAX_RAM_GB),
     effective_threads |-> platform_info.logical_cpus,
     simd_capability |-> platform_info.simd_capability,
     platform_info |-> platform_info,
     user_ram_override |-> NoNumber,
     user_threads_override |-> NoNumber,
     user_simd_override |-> NoFlag]

\* apply_overrides that takes an override as it is
apply_overrides_uncapped(self) ==
    [self EXCEPT
        !.effective_ram_gb =
            IF self.user_ram_override.some
            THEN self.user_ram_override.value ELSE @,
        !.effective_threads =
            IF self.user_threads_override.some
            THEN self.user_threads_override.value ELSE @,
        !.simd_capability =
            IF self.user_simd_override = Some(FALSE) THEN "None" ELSE @]

\* apply_overrides that gives the detected capability back when the user
\* enables SIMD
apply_overrides_restoring(self) ==
    [self EXCEPT
        !.effective_ram_gb =
            IF self.user_ram_override.some
            THEN Min(self.user_ram_override.value,
                     self.platform_info.total_memory_gb)
            ELSE @,
        !.effective_threads =
            IF self.user_threads_override.some
            THEN Min(self.user_threads_override.value,
                     self.platform_info.logical_cpus)
            ELSE @,
        !.simd_capability =
            IF self.user_simd_override = Some(FALSE) THEN "None"
            ELSE IF self.user_simd_override = Some(TRUE)
            THEN self.platform_info.simd_capability
            ELSE @]

apply_overrides(self) ==
    [self EXCEPT
        !.effective_ram_gb =
            IF self.user_ram_override.some
            THEN Min(self.user_ram_override.value,
                     self.platform_info.total_memory_gb)
            ELSE @,
        !.effective_threads =
            IF self.user_threads_override.some
            THEN Min(self.user_threads_override.value,
                     self.platform_info.logical_cpus)
            ELSE @,
        !.simd_capability =
            IF self.user_simd_override = Some(FALSE) THEN "None" ELSE @]

set_ram_override(self, ram_gb) ==
    apply_overrides([self EXCEPT !.user_ram_override = Some(ram_gb)])

set_threads_override(self, threads) ==
    apply_overrides([self EXCEPT !.user_threads_override = Some(threads)])

set_simd_override(self, enabled) ==
    apply_overrides([self EXCEPT !.user_simd_override = Some(enabled)])

\* get_or_init: the first use of PERF_CONFIG makes the default configuration
PerfInit == PERF_CONFIG \in {init_default(p) : p \in PlatformInfos}

SetRamOverride(ram_gb) ==
    PERF_CONFIG' = set_ram_override(PERF_CONFIG, ram_gb)

SetThreadsOverride(threads) ==
    PERF_CONFIG' = set_threads_override(PERF_CONFIG, threads)

SetSimdOverride(enabled) ==
    PERF_CONFIG' = set_simd_override(PERF_CONFIG, enabled)

PerfNext ==
    \/ \E ram_gb \in RamOverrides : SetRamOverride(ram_gb)
    \/ \E threads \in ThreadsOverrides : SetThreadsOverride(threads)
    \/ \E enabled \in BOOLEAN : SetSimdOverride(enabled)

(***************************************************************************)
(* The cache used by several threads at once.  AssetCache holds no lock:   *)
(* a thread's save_osm_data, load_osm_data or clear_cache is the sequence  *)
(* of its file system calls, and the calls of different threads            *)
(* interleave.  A payload is written through a BufWriter in pieces, one    *)
(* byte of the model at a time, each at the offset of the writer's own     *)
(* handle; a metadata file is small and is written by one call.  A file   *)
(* is read by the read(2) calls of its reader, and what it holds can       *)
(* change between two of them.  A file that is unlinked while a thread     *)
(* has it open stays, without a name, in orphans until its last handle is  *)
(* closed.  key_dirs holds the keys whose directory is there: a directory  *)
(* is made by create_dir_all before the first file is, and remove_dir_all  *)
(* removes it after the files it found in it, which it reads and unlinks   *)
(* through a handle of the directory it opened.                            *)
(***************************************************************************)
Threads == {"t1", "t2", "t3"}

\* the names of the files that were unlinked while open, at most one for
\* each thread, and their order
OrphanIds == {"o1", "o2", "o3"}
OrphanRank == [id \in OrphanIds |-> CASE id = "o1" -> 1
                                       [] id = "o2" -> 2
                                       [] id = "o3" -> 3]

NoMetadata == [absent |-> TRUE]

\* what an operation of a thread returned
Outcome(ok, error, data, metadata) ==
    [ok |-> ok, error |-> error, data |-> data, metadata |-> metadata]
NoOutcome == Outcome(FALSE, "pending", <<>>, NoMetadata)
OkUnit == Outcome(TRUE, "", <<>>, NoMetadata)
OkData(data) == Outcome(TRUE, "", data, NoMetadata)
OkMetadata(metadata) == Outcome(TRUE, "", <<>>, metadata)
Failed(kind) == Outcome(FALSE, kind, <<>>, NoMetadata)

\* a Result of the one-piece operations, as an outcome
AsOutcome(op, result) ==
    IF ~result.ok THEN Failed(result.error)
    ELSE IF op = "save_osm_data" THEN OkMetadata(result.value)
    ELSE IF op = "load_osm_data" THEN OkData(result.value)
    ELSE OkUnit

\* fd: the handle of the file this thread has open, "linked" while the
\* file has its name in the key directory; metadata: the record that
\* load_metadata has parsed; dirfd: the handle of the directory that
\* remove_dir_all has open, "linked" while the directory has its name and
\* "dead" once it was removed; listing: the files that remove_dir_all
\* has read from the directory and not yet removed
IdleThread ==
    [op |-> "idle", pc |-> "idle", bbox |-> NoBBox, data |-> <<>>,
     method |-> "", written |-> 0, size |-> 0, overlapped |-> FALSE,
     fd |-> "closed", metadata |-> NoMetadata, dirfd |-> "closed",
     listing |-> <<>>, result |-> NoOutcome, expected |-> NoOutcome]

CacheCall(op, bbox, data, method) ==
    [op |-> op, bbox |-> bbox, data |-> data, method |-> method]

\* write(2) at an offset that is not the end of the file: O_APPEND
WriteAppend(content, offset, byte) == Append(content, byte)

\* write(2) of one byte at an offset: it replaces the byte there, extends
\* the file by it, or leaves a hole of zero bytes before it
RECURSIVE WriteAt(_, _, _)
WriteAt(content, offset, byte) ==
    IF offset < Len(content) THEN [content EXCEPT ![offset + 1] = byte]
    ELSE IF offset = Len(content) THEN Append(content, byte)
    ELSE WriteAt(Append(content, "0"), offset, byte)

\* unlink that removes the file of that name from every key directory
remove_file_everywhere(dir, cache_key, file) ==
    [k \in Keys |-> [dir[k] EXCEPT ![file] = NoFile]]

\* unlink of one file of a key directory
remove_file(dir, cache_key, file) ==
    [dir EXCEPT ![cache_key][file] = NoFile]

\* the operation run in one piece on the history directory: what it leaves
\* there and what it returns
InOnePiece(dir, c) ==
    IF c.op = "save_osm_data"
    THEN LET done == save_osm_data(dir, c.bbox, c.data, c.method, Now)
         IN  [dir |-> done.dir, result |-> AsOutcome(c.op, done.result)]
    ELSE IF c.op = "load_osm_data"
    THEN [dir |-> dir,
          result |-> AsOutcome(c.op, load_osm_data(dir, c.bbox))]
    ELSE [dir |-> [dir EXCEPT ![CacheKey[c.bbox]] = EmptyDir],
          result |-> OkUnit]

FirstStep(op) ==
    CASE op = "save_osm_data" -> "create_dir"
      [] op = "load_osm_data" -> "exists"
      [] op = "clear_cache" -> "exists"

RaceInit ==
    /\ procs = [t \in Threads |-> IdleThread]
    /\ serial = [k \in Keys |-> EmptyDir]
    /\ key_dirs = {}
    /\ orphans = [id \in OrphanIds |-> NoFile]

\* thread t calls an operation of the cache.  The history keeps what the
\* operation returns when run in one piece, and whether another thread
\* was inside an operation when this one was called.
ThreadCalls(t, c) ==
    LET whole == InOnePiece(serial, c)
    IN  /\ procs[t].pc \in {"idle", "done"}
        /\ procs' = [procs EXCEPT ![t] =
                        [op |-> c.op, pc |-> FirstStep(c.op), bbox |-> c.bbox,
                         data |-> c.data, method |-> c.method,
                         written |-> 0, size |-> 0,
                         fd |-> "closed", metadata |-> NoMetadata,
                         dirfd |-> "closed", listing |-> <<>>,
                         overlapped |->
                             \E u \in Threads \ {t} :
                                 procs[u].pc \notin {"idle", "done"},
                         result |-> NoOutcome, expected |-> whole.result]]
        /\ serial' = whole.dir
        /\ UNCHANGED <<cache_dir, key_dirs, orphans>>

\* an operation of thread t returns: its handle is closed and its locals
\* are gone
Returns(t, result) ==
    procs' = [procs EXCEPT ![t].pc = "done", ![t].result = result,
                           ![t].fd = "closed", ![t].written = 0,
                           ![t].size = 0, ![t].metadata = NoMetadata,
                           ![t].dirfd = "closed", ![t].listing = <<>>]

\* the file of the key directory that a thread at pc has open
HandleName(pc) ==
    IF pc \in {"write_osm", "fstat", "read_osm"} THEN "osm" ELSE "meta"

\* the file behind the open handle of a thread: the one that has the name
\* in the key directory, or one that was unlinked since it was opened
FileOf(self) ==
    IF self.fd = "linked"
    THEN cache_dir[CacheKey[self.bbox]][HandleName(self.pc)]
    ELSE orphans[self.fd]

\* the key directories after thread t wrote through its handle
DirWritten(t, content) ==
    IF procs[t].fd = "linked"
    THEN [cache_dir EXCEPT
             ![CacheKey[procs[t].bbox]][HandleName(procs[t].pc)] = content]
    ELSE cache_dir

\* the unlinked files after thread t wrote through its handle
OrphansWritten(t, content) ==
    IF procs[t].fd \in OrphanIds
    THEN [orphans EXCEPT ![procs[t].fd] = content]
    ELSE orphans

\* the unlinked files after thread t closed its handle: a file without a
\* name goes with its last handle
OrphansClosed(t, files) ==
    IF /\ procs[t].fd \in OrphanIds
       /\ \A u \in Threads \ {t} : procs[u].fd # procs[t].fd
    THEN [files EXCEPT ![procs[t].fd] = NoFile]
    ELSE files

\* save_osm_data, fs::create_dir_all: mkdir of the key directory, which
\* fails when it is there
CreateDirAll(t) ==
    LET self == procs[t]
        cache_key == CacheKey[self.bbox]
    IN  /\ self.op = "save_osm_data" /\ self.pc = "create_dir"
        /\ IF cache_key \in key_dirs
           THEN /\ procs' = [procs EXCEPT ![t].pc = "is_dir"]
                /\ UNCHANGED key_dirs
           ELSE /\ procs' = [procs EXCEPT ![t].pc = "create_osm"]
                /\ key_dirs' = key_dirs \cup {cache_key}
        /\ UNCHANGED <<cache_dir, serial, orphans>>

\* save_osm_data, fs::create_dir_all after a mkdir that failed: is_dir(),
\* and the error of the mkdir when the directory is there no more
IsDir(t) ==
    LET self == procs[t]
    IN  /\ self.op = "save_osm_data" /\ self.pc = "is_dir"
        /\ IF CacheKey[self.bbox] \in key_dirs
           THEN procs' = [procs EXCEPT ![t].pc = "create_osm"]
           ELSE Returns(t, Failed("AlreadyExists"))
        /\ UNCHANGED <<cache_dir, serial, key_dirs, orphans>>

\* save_osm_data, File::create: the payload file is made, or emptied when
\* it was there; without the key directory the call fails
CreateOsm(t) ==
    LET self == procs[t]
        cache_key == CacheKey[self.bbox]
    IN  /\ self.op = "save_osm_data" /\ self.pc = "create_osm"
        /\ IF cache_key \in key_dirs
           THEN /\ cache_dir' = [cache_dir EXCEPT
                                    ![cache_key].osm = File(<<>>)]
                /\ procs' = [procs EXCEPT
                                ![t].fd = IF self.data = <<>> THEN "closed"
                                          ELSE "linked",
                                ![t].pc = IF self.data = <<>> THEN "stat"
                                          ELSE "write_osm"]
           ELSE /\ Returns(t, Failed("NotFound"))
                /\ UNCHANGED cache_dir
        /\ UNCHANGED <<serial, key_dirs, orphans>>

\* save_osm_data, write_all and flush: the next piece of the payload, at
\* the offset of this thread's handle, into the file it created
WriteOsm(t) ==
    LET self == procs[t]
        content == File(WriteAt(FileOf(self).content, self.written,
                                self.data[self.written + 1]))
        final == self.written + 1 = Len(self.data)
    IN  /\ self.op = "save_osm_data" /\ self.pc = "write_osm"
        /\ cache_dir' = DirWritten(t, content)
        /\ orphans' = IF final
                      THEN OrphansClosed(t, OrphansWritten(t, content))
                      ELSE OrphansWritten(t, content)
        /\ procs' = [procs EXCEPT
                        ![t].written = @ + 1,
                        ![t].fd = IF final THEN "closed" ELSE @,
                        ![t].pc = IF final THEN "stat" ELSE "write_osm"]
        /\ UNCHANGED <<serial, key_dirs>>

\* save_osm_data, fs::metadata(&osm_file)?.len(), by the path of the file
StatOsm(t) ==
    LET self == procs[t]
        cache_key == CacheKey[self.bbox]
    IN  /\ self.op = "save_osm_data" /\ self.pc = "stat"
        /\ IF cache_dir[cache_key].osm.exists
           THEN procs' = [procs EXCEPT
                             ![t].size = Len(cache_dir[cache_key].osm.content),
                             ![t].pc = "create_meta"]
           ELSE Returns(t, Failed("NotFound"))
        /\ UNCHANGED <<cache_dir, serial, key_dirs, orphans>>

\* save_metadata, File::create: the metadata file is made or emptied, and
\* an empty file is not the JSON of a CacheMetadata; without the key
\* directory the call fails
CreateMeta(t) ==
    LET self == procs[t]
        cache_key == CacheKey[self.bbox]
    IN  /\ self.op = "save_osm_data" /\ self.pc = "create_meta"
        /\ IF cache_key \in key_dirs
           THEN /\ cache_dir' = [cache_dir EXCEPT
                                    ![cache_key].meta = File(GarbledMetadata)]
                /\ procs' = [procs EXCEPT ![t].pc = "write_meta",
                                          ![t].fd = "linked"]
           ELSE /\ Returns(t, Failed("NotFound"))
                /\ UNCHANGED cache_dir
        /\ UNCHANGED <<serial, key_dirs, orphans>>

\* the CacheMetadata of a running save_osm_data
MetadataOf(self) ==
    [NewMetadata(self.bbox, self.data, self.method, Now)
        EXCEPT !.osm_data_size = self.size]

\* save_metadata, to_writer_pretty, and the return of save_osm_data.  The
\* text goes in one write to offset 0 of the file this thread created.
\* Over a longer text, written since this thread emptied the file, it
\* leaves the end of that text in place, and the file does not parse.
WriteMeta(t) ==
    LET self == procs[t]
        cache_metadata == MetadataOf(self)
        found == FileOf(self).content
        content == File(IF MetadataLen(found) > MetadataLen(cache_metadata)
                        THEN Garbled(MetadataLen(found))
                        ELSE cache_metadata)
    IN  /\ self.op = "save_osm_data" /\ self.pc = "write_meta"
        /\ cache_dir' = DirWritten(t, content)
        /\ orphans' = OrphansClosed(t, OrphansWritten(t, content))
        /\ Returns(t, OkMetadata(cache_metadata))
        /\ UNCHANGED <<serial, key_dirs>>

\* load_osm_data, osm_file.exists()
LoadExists(t) ==
    LET self == procs[t]
    IN  /\ self.op = "load_osm_data" /\ self.pc = "exists"
        /\ IF cache_dir[CacheKey[self.bbox]].osm.exists
           THEN procs' = [procs EXCEPT ![t].pc = "open_osm"]
           ELSE Returns(t, Failed("NotFound"))
        /\ UNCHANGED <<cache_dir, serial, key_dirs, orphans>>

\* load_osm_data, fs::read_to_string: File::open
OpenOsm(t) ==
    LET self == procs[t]
    IN  /\ self.op = "load_osm_data" /\ self.pc = "open_osm"
        /\ IF cache_dir[CacheKey[self.bbox]].osm.exists
           THEN procs' = [procs EXCEPT ![t].pc = "fstat", ![t].fd = "linked"]
           ELSE Returns(t, Failed("NotFound"))
        /\ UNCHANGED <<cache_dir, serial, key_dirs, orphans>>

\* load_osm_data, fs::read_to_string: the length of the file, for which
\* the buffer is made
FstatOsm(t) ==
    LET self == procs[t]
    IN  /\ self.op = "load_osm_data" /\ self.pc = "fstat"
        /\ procs' = [procs EXCEPT ![t].size = Len(FileOf(self).content),
                                  ![t].pc = "read_osm"]
        /\ UNCHANGED <<cache_dir, serial, key_dirs, orphans>>

\* load_osm_data, fs::read_to_string: one read(2) at the offset of the
\* handle, of no more than the buffer has room for, and past the length
\* found by fstat of all there is (a file of the model is shorter than
\* the 32 bytes such a read asks for).  A read that gives nothing ends
\* the reading.
ReadOsm(t) ==
    LET self == procs[t]
        content == FileOf(self).content
        offset == Len(self.data)
        upto == IF self.size > offset THEN Min(Len(content), self.size)
                ELSE Len(content)
        bytes == SubSeq(content, offset + 1, upto)
    IN  /\ self.op = "load_osm_data" /\ self.pc = "read_osm"
        /\ IF bytes = <<>>
           THEN /\ procs' = [procs EXCEPT ![t].pc = "open_meta",
                                          ![t].fd = "closed"]
                /\ orphans' = OrphansClosed(t, orphans)
           ELSE /\ procs' = [procs EXCEPT ![t].data = @ \o bytes]
                /\ UNCHANGED orphans
        /\ UNCHANGED <<cache_dir, serial, key_dirs>>

\* load_metadata, File::open
OpenMeta(t) ==
    LET self == procs[t]
    IN  /\ self.op = "load_osm_data" /\ self.pc = "open_meta"
        /\ IF cache_dir[CacheKey[self.bbox]].meta.exists
           THEN procs' = [procs EXCEPT ![t].pc = "read_text",
                                       ![t].fd = "linked"]
           ELSE Returns(t, Failed("NotFound"))
        /\ UNCHANGED <<cache_dir, serial, key_dirs, orphans>>

\* load_metadata, serde_json::from_reader: the first read(2) of the
\* BufReader gives all the file holds, and the record is parsed from it
ReadText(t) ==
    LET self == procs[t]
        content == FileOf(self).content
    IN  /\ self.op = "load_osm_data" /\ self.pc = "read_text"
        /\ IF IsGarbled(content)
           THEN /\ Returns(t, Failed("SerializationError"))
                /\ orphans' = OrphansClosed(t, orphans)
           ELSE /\ procs' = [procs EXCEPT ![t].metadata = content,
                                          ![t].pc = "read_meta"]
                /\ UNCHANGED orphans
        /\ UNCHANGED <<cache_dir, serial, key_dirs>>

\* the end of load_osm_data without the comparison of the checksums
ReadMetaUnchecked(t) ==
    LET self == procs[t]
        trailing == MetadataLen(FileOf(self).content)
                        > MetadataLen(self.metadata)
    IN  /\ self.op = "load_osm_data" /\ self.pc = "read_meta"
        /\ Returns(t, IF trailing THEN Failed("SerializationError")
                      ELSE OkData(self.data))
        /\ orphans' = OrphansClosed(t, orphans)
        /\ UNCHANGED <<cache_dir, serial, key_dirs>>

\* load_metadata, serde_json::from_reader: the read(2) that looks for the
\* end of the file after the record, an error when it gives more bytes;
\* then the comparison of the checksums in load_osm_data
ReadMeta(t) ==
    LET self == procs[t]
        trailing == MetadataLen(FileOf(self).content)
                        > MetadataLen(self.metadata)
    IN  /\ self.op = "load_osm_data" /\ self.pc = "read_meta"
        /\ Returns(t, IF trailing THEN Failed("SerializationError")
                      ELSE IF calculate_checksum(self.data)
                                  # self.metadata.osm_checksum
                           THEN Failed("IntegrityError")
                      ELSE OkData(self.data))
        /\ orphans' = OrphansClosed(t, orphans)
        /\ UNCHANGED <<cache_dir, serial, key_dirs>>

\* the orders in which a directory read can give a set of files
Orders(files) ==
    IF files = {} THEN {<<>>}
    ELSE IF Cardinality(files) = 1
    THEN {<<file>> : file \in files}
    ELSE {<<"osm", "meta">>, <<"meta", "osm">>}

\* the files a key directory holds
FilesOf(entry) == {file \in {"osm", "meta"} : entry[file].exists}

\* what the first getdents64 of a key directory can return: its files
FileOrders(entry) == Orders(FilesOf(entry))

\* what a later getdents64 can return: the files made since the first
\* one, each of which the file system may show to an open directory
\* stream or not
LaterOrders(entry) == UNION {Orders(files) : files \in SUBSET FilesOf(entry)}

\* clear_cache, cache_subdir.exists()
ClearExists(t) ==
    LET self == procs[t]
    IN  /\ self.op = "clear_cache" /\ self.pc = "exists"
        /\ IF CacheKey[self.bbox] \in key_dirs
           THEN procs' = [procs EXCEPT ![t].pc = "lstat"]
           ELSE Returns(t, OkUnit)
        /\ UNCHANGED <<cache_dir, serial, key_dirs, orphans>>

\* clear_cache, remove_dir_all: lstat of the path, which fails when the
\* directory is there no more
ClearLstat(t) ==
    LET self == procs[t]
    IN  /\ self.op = "clear_cache" /\ self.pc = "lstat"
        /\ IF CacheKey[self.bbox] \in key_dirs
           THEN procs' = [procs EXCEPT ![t].pc = "open_dir"]
           ELSE Returns(t, Failed("NotFound"))
        /\ UNCHANGED <<cache_dir, serial, key_dirs, orphans>>

\* clear_cache, remove_dir_all: openat of the path; the handle stays with
\* the directory it opened
ClearOpenDir(t) ==
    LET self == procs[t]
    IN  /\ self.op = "clear_cache" /\ self.pc = "open_dir"
        /\ IF CacheKey[self.bbox] \in key_dirs
           THEN procs' = [procs EXCEPT ![t].pc = "read_dir",
                                       ![t].dirfd = "linked"]
           ELSE Returns(t, Failed("NotFound"))
        /\ UNCHANGED <<cache_dir, serial, key_dirs, orphans>>

\* clear_cache, remove_dir_all: the first getdents64 on the handle, which
\* gives the files of the directory.  On a directory that was removed
\* since it was opened it fails, which readdir takes as the end of the
\* directory: the handle is closed and the rmdir is next.
ClearReadDir(t) ==
    LET self == procs[t]
    IN  /\ self.op = "clear_cache" /\ self.pc = "read_dir"
        /\ IF self.dirfd = "linked"
           THEN \E order \in FileOrders(cache_dir[CacheKey[self.bbox]]) :
                   procs' = [procs EXCEPT ![t].pc = "remove",
                                          ![t].listing = order]
           ELSE procs' = [procs EXCEPT ![t].pc = "rmdir",
                                       ![t].dirfd = "closed"]
        /\ UNCHANGED <<cache_dir, serial, key_dirs, orphans>>

\* the first name that no unlinked file has
FreeOrphan ==
    CHOOSE id \in OrphanIds :
        /\ ~orphans[id].exists
        /\ \A other \in OrphanIds :
              ~orphans[other].exists => OrphanRank[id] <= OrphanRank[other]

\* the threads whose open file has no name in the directories dir
Holders(dir) ==
    {u \in Threads :
        /\ procs[u].fd = "linked"
        /\ ~dir[CacheKey[procs[u].bbox]][HandleName(procs[u].pc)].exists}

\* clear_cache, remove_dir_all: unlinkat, relative to the handle of the
\* directory, of the files read from it, one at a time.  A file that is
\* gone, or a directory that was removed since it was opened, is passed
\* over.  A file that a thread has open lives on without a name: the
\* thread reads and writes it through its handle.
Unlink(t, file) ==
    LET self == procs[t]
        cache_key == CacheKey[self.bbox]
        removed == IF self.dirfd = "linked"
                   THEN remove_file(cache_dir, cache_key, file)
                   ELSE cache_dir
        holders == Holders(removed)
        id == FreeOrphan
    IN  /\ self.op = "clear_cache" /\ self.pc = "remove"
        /\ self.listing # <<>>
        /\ file = Head(self.listing)
        /\ cache_dir' = removed
        /\ orphans' = IF holders = {} THEN orphans
                      ELSE [orphans EXCEPT ![id] = cache_dir[cache_key][file]]
        /\ procs' = [u \in Threads |->
                        IF u = t
                        THEN [self EXCEPT !.listing = Tail(self.listing)]
                        ELSE IF u \in holders
                        THEN [procs[u] EXCEPT !.fd = id]
                        ELSE procs[u]]
        /\ UNCHANGED <<serial, key_dirs>>

\* clear_cache, remove_dir_all: the getdents64 that follows the files of
\* the one before.  It can give files made since, and when it gives none
\* the directory has been read; on a directory that was removed since it
\* was opened it fails, which readdir takes as the end of the directory.
\* The handle is then closed and the rmdir is next.
ClearReadMore(t) ==
    LET self == procs[t]
    IN  /\ self.op = "clear_cache" /\ self.pc = "remove"
        /\ self.listing = <<>>
        /\ IF self.dirfd = "linked"
           THEN \E order \in LaterOrders(cache_dir[CacheKey[self.bbox]]) :
                   procs' = [procs EXCEPT
                                ![t].listing = order,
                                ![t].dirfd = IF order = <<>> THEN "closed"
                                             ELSE @,
                                ![t].pc = IF order = <<>> THEN "rmdir"
                                          ELSE @]
           ELSE procs' = [procs EXCEPT ![t].pc = "rmdir",
                                       ![t].dirfd = "closed"]
        /\ UNCHANGED <<cache_dir, serial, key_dirs, orphans>>

\* clear_cache, remove_dir_all: unlinkat of the path as a directory, which
\* fails on a directory that holds a file, and passes over one that is
\* gone.  The handles that other threads have of the directory stay with
\* the directory that was removed.
Rmdir(t) ==
    LET self == procs[t]
        cache_key == CacheKey[self.bbox]
    IN  /\ self.op = "clear_cache" /\ self.pc = "rmdir"
        /\ IF cache_dir[cache_key] # EmptyDir
           THEN /\ Returns(t, Failed("DirectoryNotEmpty"))
                /\ UNCHANGED key_dirs
           ELSE /\ key_dirs' = key_dirs \ {cache_key}
                /\ procs' =
                      [u \in Threads |->
                          IF u = t
                          THEN [self EXCEPT !.pc = "done", !.result = OkUnit]
                          ELSE IF /\ cache_key \in key_dirs
                                  /\ procs[u].dirfd = "linked"
                                  /\ CacheKey[procs[u].bbox] = cache_key
                          THEN [procs[u] EXCEPT !.dirfd = "dead"]
                          ELSE procs[u]]
        /\ UNCHANGED <<cache_dir, serial, orphans>>

\* the payloads of the threads: no byte of one is a byte of the other
ThreadPayloads == {<<"x">>, <<"e", "e">>}

\* two threads, each with a key of its own
OwnBox ==
    [t \in {"t1", "t2"} |->
        IF t = "t1" THEN BBoxOf(400000000, -740000000, 410000000, -730000000)
        ELSE BBoxOf(500000000, -840000000, 510000000, -830000000)]

OwnCalls(t) ==
    {CacheCall("save_osm_data", OwnBox[t], data, "requests") :
        data \in ThreadPayloads}
    \cup {CacheCall("load_osm_data", OwnBox[t], <<>>, ""),
          CacheCall("clear_cache", OwnBox[t], <<>>, "")}

OwnKeysNext ==
    \E t \in DOMAIN OwnBox :
        \/ \E c \in OwnCalls(t) : ThreadCalls(t, c)
        \/ CreateDirAll(t)
        \/ IsDir(t)
        \/ CreateOsm(t)
        \/ WriteOsm(t)
        \/ StatOsm(t)
        \/ CreateMeta(t)
        \/ WriteMeta(t)
        \/ LoadExists(t)
        \/ OpenOsm(t)
        \/ FstatOsm(t)
        \/ ReadOsm(t)
        \/ OpenMeta(t)
        \/ ReadText(t)
        \/ ReadMeta(t)
        \/ ClearExists(t)
        \/ ClearLstat(t)
        \/ ClearOpenDir(t)
        \/ ClearReadDir(t)
        \/ \E file \in {"osm", "meta"} : Unlink(t, file)
        \/ ClearReadMore(t)
        \/ Rmdir(t)

\* the threads that change a key they share with others: each makes one
\* call, and the third thread reads the key again and again beside them
Writers == {"t1", "t2"}

\* two writers and a reader on one key
SharedBox == BBoxOf(400000000, -740000000, 410000000, -730000000)

SharedCall ==
    [t \in Threads |->
        CASE t = "t1" ->
                 CacheCall("save_osm_data", SharedBox, <<"x">>, "requests")
          [] t = "t2" ->
                 CacheCall("save_osm_data", SharedBox, <<"e", "e">>, "curl")
          [] t = "t3" -> CacheCall("load_osm_data", SharedBox, <<>>, "")]

\* a thread that writes a payload or clears the key, a thread that clears
\* the key or writes a shorter payload that the first begins with, and a
\* reader, on one key
ClearRaceCalls ==
    [t \in Threads |->
        CASE t = "t1" ->
                 {CacheCall("save_osm_data", SharedBox, <<"x", "x">>,
                            "requests"),
                  CacheCall("clear_cache", SharedBox, <<>>, "")}
          [] t = "t2" ->
                 {CacheCall("clear_cache", SharedBox, <<>>, ""),
                  CacheCall("save_osm_data", SharedBox, <<"x">>, "curl")}
          [] t = "t3" -> {CacheCall("load_osm_data", SharedBox, <<>>, "")}]

\* the cache when these threads start: new, or holding the key as a
\* save_osm_data of an earlier run has left it
EarlierSave == CacheCall("save_osm_data", SharedBox, <<"x">>, "curl")

ClearRaceInit ==
    /\ procs = [t \in Threads |-> IdleThread]
    /\ orphans = [id \in OrphanIds |-> NoFile]
    /\ \E held \in BOOLEAN :
          LET new == [k \in Keys |-> EmptyDir]
              dir == IF held THEN InOnePiece(new, EarlierSave).dir ELSE new
          IN  /\ cache_dir = dir
              /\ serial = dir
              /\ key_dirs = {k \in Keys : dir[k] # EmptyDir}

\* the payloads passed to save_osm_data by these threads
ClearRacePayloads ==
    {c.data : c \in {c \in UNION {ClearRaceCalls[t] : t \in Threads} :
                        c.op = "save_osm_data"}}

ClearRaceNext ==
    \E t \in Threads :
        \/ /\ t \in Writers => procs[t].pc = "idle"
           /\ \E c \in ClearRaceCalls[t] : ThreadCalls(t, c)
        \/ CreateDirAll(t)
        \/ IsDir(t)
        \/ CreateOsm(t)
        \/ WriteOsm(t)
        \/ StatOsm(t)
        \/ CreateMeta(t)
        \/ WriteMeta(t)
        \/ LoadExists(t)
        \/ OpenOsm(t)
        \/ FstatOsm(t)
        \/ ReadOsm(t)
        \/ OpenMeta(t)
        \/ ReadText(t)
        \/ ReadMeta(t)
        \/ ClearExists(t)
        \/ ClearLstat(t)
        \/ ClearOpenDir(t)
        \/ ClearReadDir(t)
        \/ \E file \in {"osm", "meta"} : Unlink(t, file)
        \/ ClearReadMore(t)
        \/ Rmdir(t)

SharedKeyNext ==
    \E t \in Threads :
        \/ /\ t \in Writers => procs[t].pc = "idle"
           /\ ThreadCalls(t, SharedCall[t])
        \/ CreateDirAll(t)
        \/ IsDir(t)
        \/ CreateOsm(t)
        \/ WriteOsm(t)
        \/ StatOsm(t)
        \/ CreateMeta(t)
        \/ WriteMeta(t)
        \/ LoadExists(t)
        \/ OpenOsm(t)
        \/ FstatOsm(t)
        \/ ReadOsm(t)
        \/ OpenMeta(t)
        \/ ReadText(t)
        \/ ReadMeta(t)

(***************************************************************************)
(* The specifications.  Each runs one component and holds the state of     *)
(* the other two at its initial value.                                     *)
(***************************************************************************)
ChunkIdle ==
    /\ call = TestCall
    /\ llbbox_strict = TRUE
    /\ chunks = NotCalled
    /\ again = NotCalled

WireIdle ==
    /\ wire = WorkResult_to_json(TestResult)
    /\ decoded = NotDecoded

KeyIdle ==
    /\ key_call = NoKeyCall
    /\ key_result = NoKeys

FetchIdle == fetch = NoFetch

PerfIdle ==
    PERF_CONFIG = init_default([logical_cpus |-> 1, total_memory_gb |-> 8,
                                simd_capability |-> "None"])

RaceIdle == RaceInit

OtherIdle == PerfIdle /\ RaceIdle

Init == CacheInit /\ ChunkIdle /\ CoordInit /\ WireIdle /\ KeyIdle /\ FetchIdle /\ OtherIdle
Next ==
    CacheNext /\ UNCHANGED <<chunkVars, coordVars, wireVars, keyVars, fetch, perfVars, raceVars>>
Spec == Init /\ [][Next]_vars

ChunkSpecInit ==
    ChunkInit /\ CacheInit /\ CoordInit /\ WireIdle /\ KeyIdle /\ FetchIdle /\ OtherIdle
ChunkSpecNext ==
    ChunkNext /\ UNCHANGED <<cacheVars, coordVars, wireVars, keyVars, fetch, perfVars, raceVars>>
ChunkSpec == ChunkSpecInit /\ [][ChunkSpecNext]_vars

CoordSpecInit ==
    ChunkIdle /\ CoordInit /\ CacheInit /\ WireIdle /\ KeyIdle /\ FetchIdle /\ OtherIdle
CoordSpecNext ==
    CoordNext /\ UNCHANGED <<cacheVars, chunkVars, wireVars, keyVars, fetch, perfVars, raceVars>>
CoordSpec == CoordSpecInit /\ [][CoordSpecNext]_vars

WireSpecInit ==
    WireInit /\ CacheInit /\ ChunkIdle /\ CoordInit /\ KeyIdle /\ FetchIdle /\ OtherIdle
WireSpecNext ==
    WireNext /\ UNCHANGED <<cacheVars, chunkVars, coordVars, keyVars, fetch, perfVars, raceVars>>
WireSpec == WireSpecInit /\ [][WireSpecNext]_vars

KeySpecInit ==
    KeyInit /\ CacheInit /\ ChunkIdle /\ CoordInit /\ WireIdle /\ FetchIdle /\ OtherIdle
KeySpecNext ==
    KeyNext /\ UNCHANGED <<cacheVars, chunkVars, coordVars, wireVars, fetch,
                          perfVars, raceVars>>
KeySpec == KeySpecInit /\ [][KeySpecNext]_vars

DirSpecInit ==
    CacheInit /\ ChunkIdle /\ CoordInit /\ WireIdle /\ KeyIdle /\ FetchIdle /\ OtherIdle
DirSpecNext ==
    DirNext /\ UNCHANGED <<chunkVars, coordVars, wireVars, keyVars, fetch, perfVars, raceVars>>
DirSpec == DirSpecInit /\ [][DirSpecNext]_vars

\* fetch_data_from_overpass alone; a download that was started ends
FetchSpecInit ==
    FetchInit /\ CacheInit /\ ChunkIdle /\ CoordInit /\ WireIdle /\ KeyIdle /\ OtherIdle
FetchSpecNext ==
    FetchNext /\ UNCHANGED <<chunkVars, coordVars, wireVars, keyVars, perfVars, raceVars>>
FetchSpecDownloadEnds ==
    /\ \E server \in ServerReplies, gui \in BOOLEAN : DownloadEnds(server, gui)
    /\ UNCHANGED <<chunkVars, coordVars, wireVars, keyVars, perfVars, raceVars>>
FetchSpec ==
    /\ FetchSpecInit
    /\ [][FetchSpecNext]_vars
    /\ WF_vars(FetchSpecDownloadEnds)

RetrieveSpecInit ==
    FetchInit /\ CacheInit /\ ChunkIdle /\ CoordInit /\ WireIdle /\ KeyIdle /\ OtherIdle
RetrieveSpecNext ==
    RetrieveNext /\ UNCHANGED <<chunkVars, coordVars, wireVars, keyVars, perfVars, raceVars>>
RetrieveSpec == RetrieveSpecInit /\ [][RetrieveSpecNext]_vars

DamagedSpecInit ==
    FetchInit /\ CacheInit /\ ChunkIdle /\ CoordInit /\ WireIdle /\ KeyIdle /\ OtherIdle
DamagedSpecNext ==
    DamagedNext /\ UNCHANGED <<chunkVars, coordVars, wireVars, keyVars,
                               perfVars, raceVars>>
DamagedSpec == DamagedSpecInit /\ [][DamagedSpecNext]_vars

DownloadOnlySpecInit ==
    FetchInit /\ CacheInit /\ ChunkIdle /\ CoordInit /\ WireIdle /\ KeyIdle /\ OtherIdle
DownloadOnlySpecNext ==
    DownloadOnlyNext /\ UNCHANGED <<chunkVars, coordVars, wireVars, keyVars,
                                    perfVars, raceVars>>
DownloadOnlySpec == DownloadOnlySpecInit /\ [][DownloadOnlySpecNext]_vars

PerfSpecInit ==
    /\ PerfInit /\ RaceIdle
    /\ CacheInit /\ ChunkIdle /\ CoordInit /\ WireIdle /\ KeyIdle /\ FetchIdle
PerfSpecNext ==
    PerfNext /\ UNCHANGED <<cacheVars, chunkVars, coordVars, wireVars,
                            keyVars, fetch, raceVars>>
PerfSpec == PerfSpecInit /\ [][PerfSpecNext]_vars

\* threads that each keep to a key of their own
OwnKeysSpecInit ==
    /\ RaceInit /\ PerfIdle
    /\ CacheInit /\ ChunkIdle /\ CoordInit /\ WireIdle /\ KeyIdle /\ FetchIdle
OwnKeysSpecNext ==
    OwnKeysNext /\ UNCHANGED <<saved, last, chunkVars, coordVars, wireVars,
                               keyVars, fetch, perfVars>>
OwnKeysSpec == OwnKeysSpecInit /\ [][OwnKeysSpecNext]_vars

\* threads that share a key
SharedKeySpecInit ==
    /\ RaceInit /\ PerfIdle
    /\ CacheInit /\ ChunkIdle /\ CoordInit /\ WireIdle /\ KeyIdle /\ FetchIdle
SharedKeySpecNext ==
    SharedKeyNext /\ UNCHANGED <<saved, last, chunkVars, coordVars, wireVars,
                                 keyVars, fetch, perfVars>>
SharedKeySpec == SharedKeySpecInit /\ [][SharedKeySpecNext]_vars

ClearRaceSpecInit ==
    /\ ClearRaceInit /\ PerfIdle
    /\ saved = [k \in Keys |-> NoSave]
    /\ last = [op |-> "new", bbox |-> NoBBox, result |-> Ok(None)]
    /\ ChunkIdle /\ CoordInit /\ WireIdle /\ KeyIdle /\ FetchIdle
ClearRaceSpecNext ==
    ClearRaceNext /\ UNCHANGED <<saved, last, chunkVars, coordVars, wireVars,
                                 keyVars, fetch, perfVars>>
ClearRaceSpec == ClearRaceSpecInit /\ [][ClearRaceSpecNext]_vars

(***************************************************************************)
(* Properties of the asset cache, checked under Spec.                      *)
(***************************************************************************)
LastKey == CacheKey[last.bbox]

\* C1: round trip.  A load_osm_data(b) that follows a successful
\* save_osm_data(b', p, m) with key(b') = key(b), no other operation having
\* touched that key in between, succeeds and returns exactly p.
C1_RoundTrip ==
    (/\ last.op = "load_osm_data"
     /\ saved[LastKey].made
     /\ saved[LastKey].untouched)
    => /\ last.result.ok
       /\ last.result.value = saved[LastKey].data

C1_Witness ==
    /\ last.op = "load_osm_data"
    /\ saved[LastKey].made
    /\ saved[LastKey].untouched
    /\ saved[LastKey].data # <<>>
    /\ saved[LastKey].metadata.bbox # last.bbox
    /\ last.result = Ok(saved[LastKey].data)

\* C2: corruption detection.  When the payload file of a key holds content
\* other than the payload p of the last successful save, the metadata file
\* being as that save wrote it, load_osm_data fails with an integrity
\* error; it does not return the changed content.
C2_CorruptionDetected ==
    (/\ last.op = "load_osm_data"
     /\ saved[LastKey].made
     /\ cache_dir[LastKey].meta = File(saved[LastKey].metadata)
     /\ cache_dir[LastKey].osm.exists
     /\ cache_dir[LastKey].osm.content # saved[LastKey].data)
    => /\ ~last.result.ok
       /\ last.result.error = "IntegrityError"

C2_Witness ==
    /\ last.op = "load_osm_data"
    /\ saved[LastKey].made
    /\ cache_dir[LastKey].meta = File(saved[LastKey].metadata)
    /\ cache_dir[LastKey].osm.exists
    /\ cache_dir[LastKey].osm.content # saved[LastKey].data
    /\ last.result = Err("IntegrityError")

(***************************************************************************)
(* Properties of split_into_chunks, checked under ChunkSpec.               *)
(***************************************************************************)
LatRange == call.bbox.max_lat - call.bbox.min_lat
LngRange == call.bbox.max_lng - call.bbox.min_lng
ChunkSize == call.config.chunk_size_degrees
Units == chunks.units

\* n = ceil(range / size), for size > 0
IsCeil(n, range, size) == n * size >= range /\ (n - 1) * size < range

\* the number of rows and of columns of the grid
LatCount == CHOOSE n \in 0..LatRange : IsCeil(n, LatRange, ChunkSize)
LngCount == CHOOSE n \in 0..LngRange : IsCeil(n, LngRange, ChunkSize)

Split_Returned == chunks.returned /\ ChunkSize > 0

\* C3: partition count.  For chunk_size_degrees c > 0 and overlap >= 0 the
\* call returns exactly ceil(L/c) * ceil(W/c) work units, and for each grid
\* position (i, j) exactly one of them is named chunk_{i}_{j}.
C3_PartitionCount ==
    Split_Returned =>
        /\ Len(Units) = LatCount * LngCount
        /\ \A i \in 0..(LatCount - 1), j \in 0..(LngCount - 1) :
              Cardinality({k \in 1..Len(Units) :
                              Units[k].chunk_id = ChunkId(i, j)}) = 1

\* the grid cell of a work unit: from its minimum corner for c degrees,
\* clipped to the region
NominalMaxLat(u) == Min(u.bbox.min_lat + ChunkSize, call.bbox.max_lat)
NominalMaxLng(u) == Min(u.bbox.min_lng + ChunkSize, call.bbox.max_lng)

\* C4: partition coverage.  The grid cells of the returned work units cover
\* the region with no gap (every one-tick square of the region lies in the
\* grid cell of some unit), every unit's minimum corner lies in the region,
\* and no unit's maximum exceeds the region's maximum.
C4_PartitionCoverage ==
    Split_Returned =>
        /\ \A x \in call.bbox.min_lat..(call.bbox.max_lat - 1),
              y \in call.bbox.min_lng..(call.bbox.max_lng - 1) :
              \E k \in 1..Len(Units) :
                  /\ Units[k].bbox.min_lat <= x
                  /\ x + 1 <= NominalMaxLat(Units[k])
                  /\ Units[k].bbox.min_lng <= y
                  /\ y + 1 <= NominalMaxLng(Units[k])
        /\ \A k \in 1..Len(Units) :
              /\ call.bbox.min_lat <= Units[k].bbox.min_lat
              /\ Units[k].bbox.min_lat <= call.bbox.max_lat
              /\ call.bbox.min_lng <= Units[k].bbox.min_lng
              /\ Units[k].bbox.min_lng <= call.bbox.max_lng
              /\ Units[k].bbox.max_lat <= call.bbox.max_lat
              /\ Units[k].bbox.max_lng <= call.bbox.max_lng

C4_Witness ==
    /\ Split_Returned
    /\ LatRange % ChunkSize # 0
    /\ LngRange % ChunkSize # 0
    /\ call.config.overlap_degrees > 0
    /\ Len(Units) = 4
    /\ Units[4].bbox.max_lat = call.bbox.max_lat
    /\ Units[4].bbox.max_lat < Units[4].bbox.min_lat + ChunkSize

\* C5: row-major order.  The unit of grid position (i, j) is at position
\* i * lngCount + j of the result; the call of test_split_into_chunks
\* returns chunk_0_0, chunk_0_1, chunk_1_0, chunk_1_1 in that order.
C5_RowMajorOrder ==
    Split_Returned =>
        /\ \A i \in 0..(LatCount - 1), j \in 0..(LngCount - 1) :
              /\ i * LngCount + j + 1 <= Len(Units)
              /\ Units[i * LngCount + j + 1].chunk_id = ChunkId(i, j)
        /\ call = TestCall =>
              [k \in 1..Len(Units) |-> Units[k].chunk_id]
                  = <<"chunk_0_0", "chunk_0_1", "chunk_1_0", "chunk_1_1">>

\* C6: degenerate chunk size.  A call with chunk_size_degrees <= 0 fails
\* with a ConfigError and produces no chunk.
C6_DegenerateSizeRejected ==
    (chunks # NotCalled /\ ChunkSize <= 0)
    => /\ chunks.returned
       /\ chunks.error = "ConfigError"
       /\ Units = <<>>

\* C23: unique chunk ids.  Within the result of one split_into_chunks call
\* no two work units have the same chunk_id.
C23_UniqueChunkIds ==
    chunks.returned =>
        \A k1, k2 \in 1..Len(Units) :
            Units[k1].chunk_id = Units[k2].chunk_id => k1 = k2

C23_Witness ==
    /\ Split_Returned
    /\ LatCount >= 2
    /\ LngCount >= 2
    /\ Cardinality({Units[k].chunk_id : k \in 1..Len(Units)}) = Len(Units)

\* C26: asymmetric overlap.  The chunk at grid position (i, j) has its
\* minimum corner at the region's minimum plus (i, j) times the chunk size,
\* the overlap never subtracted, and its maximum corner at the minimum plus
\* chunk size plus overlap, clipped to the region's maximum, on both axes.
C26_AsymmetricOverlap ==
    Split_Returned =>
        /\ Units # <<>>
        /\ \A k \in 1..Len(Units) :
              \E i \in 0..Len(Units), j \in 0..Len(Units) :
                 LET b == Units[k].bbox
                     o == call.config.overlap_degrees
                 IN  /\ Units[k].chunk_id = ChunkId(i, j)
                     /\ b.min_lat = call.bbox.min_lat + i * ChunkSize
                     /\ b.min_lng = call.bbox.min_lng + j * ChunkSize
                     /\ b.max_lat = Min(b.min_lat + ChunkSize + o,
                                        call.bbox.max_lat)
                     /\ b.max_lng = Min(b.min_lng + ChunkSize + o,
                                        call.bbox.max_lng)

\* a grid of two rows or more with an overlap: the first unit reaches past
\* its cell by the overlap, the last one starts on its grid line and is
\* clipped to the region
C26_Witness ==
    /\ Split_Returned
    /\ call.config.overlap_degrees > 0
    /\ LatCount >= 2
    /\ LngCount >= 2
    /\ Units[1].bbox.max_lat = call.bbox.min_lat + ChunkSize
                                   + call.config.overlap_degrees
    /\ Units[1].bbox.max_lat < call.bbox.max_lat
    /\ Units[Len(Units)].bbox.min_lat
           = call.bbox.min_lat + (LatCount - 1) * ChunkSize
    /\ Units[Len(Units)].bbox.max_lat = call.bbox.max_lat

(***************************************************************************)
(* Properties of the coordinator, checked under CoordSpec.                 *)
(***************************************************************************)
LifecycleSteps ==
    {<<"Pending", "Assigned">>, <<"Assigned", "InProgress">>,
     <<"InProgress", "Completed">>, <<"InProgress", "Failed">>}

\* C7: status lifecycle.  In every step the status of a chunk stays as it
\* is or moves one step along Pending -> Assigned -> InProgress ->
\* Completed | Failed; a Completed or Failed chunk never changes again.
C7_StatusLifecycle ==
    [][\A c \in ChunkIds :
          status'[c] # status[c] => <<status[c], status'[c]>> \in LifecycleSteps]_vars

C7_Witness ==
    /\ \E c \in ChunkIds : status[c] = "Completed"
    /\ \E c \in ChunkIds : status[c] = "Failed"
    /\ reply.op = "ReportProgress"
    /\ reply.outcome = "TransitionError"
    /\ status[reply.chunk] = "Completed"

\* the requests that ask for a chunk to take a status
IsAttempt(r) ==
    /\ r.op \in {"RequestWork", "ReportProgress", "SubmitResult"}
    /\ r.chunk # None
    /\ r.outcome # "scanning"

\* C8: illegal transition rejection.  A request that asks for a status the
\* chunk's present status does not lead to fails with a TransitionError and
\* changes neither the chunk's status nor any other coordinator state.
C8_IllegalTransitionRejected ==
    [][(IsAttempt(reply') /\ <<status[reply'.chunk], reply'.to>> \notin LifecycleSteps)
          => /\ reply'.outcome = "TransitionError"
             /\ UNCHANGED <<status, holder, workers, handed>>]_vars

C8_Witness ==
    /\ reply.op = "SubmitResult"
    /\ reply.to = "Completed"
    /\ status[reply.chunk] = "Pending"
    /\ reply.outcome = "TransitionError"

\* C9: exclusive assignment.  No chunk is carried by a response to two
\* different workers, and no two workers hold the same chunk.
C9_ExclusiveAssignment ==
    \A c \in ChunkIds :
        /\ Cardinality(handed[c]) <= 1
        /\ Cardinality({w \in WorkerIds : workers[w].current_chunk = c}) <= 1
        /\ status[c] \in {"Assigned", "InProgress"}
              => /\ handed[c] = {holder[c]}
                 /\ workers[holder[c]].current_chunk = c

C9_Witness ==
    /\ reply.op = "RequestWork"
    /\ reply.outcome = "TransitionError"
    /\ handed[reply.chunk] # {}
    /\ reply.worker \notin handed[reply.chunk]
    /\ status[reply.chunk] = "Assigned"

\* C10: SubmitResult ownership.  A submission by worker w for chunk c is
\* accepted only if c is Assigned or InProgress and held by w; a submission
\* for a chunk that is Pending, Completed or Failed, or held by another
\* worker, is not accepted and does not change the chunk's status.
C10_SubmitOwnership ==
    [][reply'.op = "SubmitResult" =>
          /\ reply'.outcome = "accepted"
                => /\ status[reply'.chunk] \in {"Assigned", "InProgress"}
                   /\ holder[reply'.chunk] = reply'.worker
          /\ (\/ status[reply'.chunk] \in {"Pending", "Completed", "Failed"}
              \/ holder[reply'.chunk] # reply'.worker)
                => /\ reply'.outcome # "accepted"
                   /\ status'[reply'.chunk] = status[reply'.chunk]]_vars

C10_Witness ==
    /\ reply.op = "SubmitResult"
    /\ reply.outcome = "rejected"
    /\ reply.to = "Completed"
    /\ status[reply.chunk] = "InProgress"
    /\ holder[reply.chunk] # reply.worker

(***************************************************************************)
(* Properties of WorkResult records, checked under WireSpec.               *)
(***************************************************************************)
WellFormed(r) ==
    /\ r.status \in {"Completed", "Failed"}
    /\ r.status = "Completed" => (r.result_location.some /\ ~r.error.some)
    /\ r.status = "Failed" => (r.error.some /\ ~r.result_location.some)

\* C11: WorkResult well-formedness.  Every WorkResult that has been created
\* has status Completed with a result_location and no error, or status
\* Failed with an error and no result_location; its status is never
\* Pending, Assigned or InProgress.
C11_WorkResultWellFormed ==
    decoded.ok => WellFormed(decoded.value)

(***************************************************************************)
(* Properties of fetch_data_from_overpass, checked under FetchSpec.        *)
(***************************************************************************)
\* the downloads of the call in fetch: each one started, and how each one
\* that has ended went
AttemptsInOrder ==
    /\ Len(fetch.urls) <= 2
    /\ Len(fetch.outcomes) <= Len(fetch.urls)
    /\ Len(fetch.urls) >= 1 => fetch.urls[1] \in ApiServers
    /\ Len(fetch.urls) = 2 =>
          /\ fetch.urls[2] \in FallbackApiServers
          /\ fetch.outcomes # <<>>
          /\ fetch.outcomes[1] = "failed"
    /\ (fetch.outcomes # <<>> /\ fetch.outcomes[1] = "ok") =>
          Len(fetch.urls) = 1
    /\ fetch.pc = "downloading" => Len(fetch.outcomes) = Len(fetch.urls) - 1
    /\ (fetch.pc = "done" /\ fetch.urls # <<>>) =>
          /\ Len(fetch.outcomes) = Len(fetch.urls)
          /\ fetch.outcomes = <<"failed", "failed">> =>
                fetch.result = Err("NetworkError")
          /\ fetch.outcomes = <<"failed">> => FALSE

\* C12: single fallback retry.  A call of fetch_data_from_overpass makes at
\* most two downloads: the first from a server of the primary pool; only
\* when that one fails, one more from a server of the fallback pool; when
\* that fails too the error is returned and there is no third; when the
\* first succeeds there is no second.  The loop ends: a call that is
\* downloading returns.
C12_SingleFallbackRetry ==
    /\ []AttemptsInOrder
    /\ (fetch.pc = "downloading") ~> (fetch.pc = "done")

C12_Witness ==
    /\ fetch.op = "fetch_data_from_overpass"
    /\ fetch.pc = "done"
    /\ Len(fetch.urls) = 2
    /\ fetch.outcomes = <<"failed", "failed">>
    /\ fetch.result = Err("NetworkError")

(***************************************************************************)
(* Properties of the flows in front of the cache, checked under            *)
(* RetrieveSpec.                                                           *)
(***************************************************************************)
\* both files of the entry of bbox are there
EntryExists(dir, bbox) ==
    dir[CacheKey[bbox]].osm.exists /\ dir[CacheKey[bbox]].meta.exists

\* the stored payload agrees with the checksum the metadata records
EntryIntact(dir, bbox) ==
    calculate_checksum(dir[CacheKey[bbox]].osm.content)
        = dir[CacheKey[bbox]].meta.content.osm_checksum

\* a step in which fetch_data_with_cache is called with caching enabled
CachedFetchCalled ==
    /\ fetch.pc # "downloading"
    /\ fetch'.op = "fetch_data_with_cache"
    /\ fetch'.use_cache

\* C13: read-through hit.  With caching enabled and both files of the entry
\* present, fetch_data_with_cache returns the parsed cached payload when it
\* passes the integrity check (the integrity error when it does not),
\* starts no download and writes nothing to the cache.
C13_ReadThroughHit ==
    [][(CachedFetchCalled /\ EntryExists(cache_dir, fetch'.bbox)) =>
          /\ fetch'.pc = "done"
          /\ fetch'.urls = <<>>
          /\ fetch'.cache_writes = 0
          /\ cache_dir' = cache_dir
          /\ fetch'.result =
                IF EntryIntact(cache_dir, fetch'.bbox)
                THEN from_str(cache_dir[CacheKey[fetch'.bbox]].osm.content)
                ELSE Err("IntegrityError")]_vars

C13_Witness ==
    /\ fetch.op = "fetch_data_with_cache"
    /\ fetch.use_cache
    /\ fetch.pc = "done"
    /\ fetch.hit
    /\ fetch.urls = <<>>
    /\ EntryExists(cache_dir, fetch.bbox)
    /\ fetch.result = Ok([elements |-> 1])

\* C14: write-through on miss.  A fetch_data_with_cache call with caching
\* enabled that found no entry and returns successfully has downloaded the
\* data and saved it: when it returns both files exist and hold what it
\* returns, and a fetch_data_with_cache call for the same box that comes
\* next is answered from the cache without a download.
C14_WriteThroughOnMiss ==
    [][/\ (/\ fetch.pc = "downloading"
            /\ fetch.op = "fetch_data_with_cache"
            /\ fetch.use_cache
            /\ fetch'.pc = "done"
            /\ fetch'.result.ok) =>
              /\ ~EntryExists(cache_dir, fetch.bbox)
              /\ fetch'.outcomes # <<>>
              /\ fetch'.outcomes[Len(fetch'.outcomes)] = "ok"
              /\ fetch'.cache_writes = 1
              /\ EntryExists(cache_dir', fetch.bbox)
              /\ EntryIntact(cache_dir', fetch.bbox)
              /\ from_str(cache_dir'[CacheKey[fetch.bbox]].osm.content)
                    = fetch'.result
       /\ (/\ CachedFetchCalled
            /\ fetch.pc = "done"
            /\ fetch.op = "fetch_data_with_cache"
            /\ fetch.cache_writes = 1
            /\ CacheKey[fetch'.bbox] = CacheKey[fetch.bbox]) =>
              /\ fetch'.pc = "done"
              /\ fetch'.hit
              /\ fetch'.urls = <<>>
              /\ fetch'.result = fetch.result]_vars

C14_Witness ==
    /\ fetch.op = "fetch_data_with_cache"
    /\ fetch.use_cache
    /\ fetch.pc = "done"
    /\ fetch.cache_writes = 1
    /\ fetch.outcomes = <<"failed", "ok">>
    /\ fetch.result.ok
    /\ EntryExists(cache_dir, fetch.bbox)

\* C15: process-only flow.  load_from_cache starts no download and leaves
\* the cache as it is; when the entry of the box is absent it fails with
\* the not-found error that says to run the download flow first.
C15_ProcessOnlyFlow ==
    [][(fetch.pc # "downloading" /\ fetch'.op = "load_from_cache") =>
          /\ fetch'.pc = "done"
          /\ fetch'.urls = <<>>
          /\ fetch'.cache_writes = 0
          /\ cache_dir' = cache_dir
          /\ ~EntryExists(cache_dir, fetch'.bbox) =>
                fetch'.result = NoCachedData]_vars

C15_Witness ==
    /\ fetch.op = "load_from_cache"
    /\ fetch.pc = "done"
    /\ ~EntryExists(cache_dir, fetch.bbox)
    /\ \E b \in FetchBoxes : EntryExists(cache_dir, b)
    /\ fetch.result = NoCachedData

(***************************************************************************)
(* Properties of fetch_data_with_cache in front of a cache that others     *)
(* write to, checked under DamagedSpec.                                    *)
(***************************************************************************)
\* what load_osm_data and serde_json::from_str make of an entry whose two
\* files exist: the error of the first check that fails, from the metadata
\* that does not parse to the payload that is no JSON document
EntryFailure(dir, bbox) ==
    LET entry == dir[CacheKey[bbox]]
    IN  IF IsGarbled(entry.meta.content)
        THEN Err("SerializationError")
        ELSE IF calculate_checksum(entry.osm.content)
                    # entry.meta.content.osm_checksum
        THEN Err("IntegrityError")
        ELSE IF ~from_str(entry.osm.content).ok
        THEN Err("SerializationError")
        ELSE Ok(None)

\* C27: cache failure propagation.  With caching enabled and has_cache true,
\* an entry that fails the integrity check or cannot be parsed makes
\* fetch_data_with_cache return that error: it starts no download and
\* neither changes nor removes the entry.
C27_CacheFailurePropagation ==
    [][(/\ CachedFetchCalled
        /\ has_cache(cache_dir, fetch'.bbox)
        /\ ~EntryFailure(cache_dir, fetch'.bbox).ok) =>
          /\ fetch'.pc = "done"
          /\ fetch'.result = EntryFailure(cache_dir, fetch'.bbox)
          /\ fetch'.urls = <<>>
          /\ fetch'.cache_writes = 0
          /\ cache_dir' = cache_dir]_vars

\* the call has returned the integrity error of an entry that is still
\* there, next to an entry whose checksum is right and whose payload is no
\* JSON document
C27_Witness ==
    /\ fetch.op = "fetch_data_with_cache"
    /\ fetch.use_cache
    /\ fetch.pc = "done"
    /\ fetch.result = Err("IntegrityError")
    /\ fetch.urls = <<>>
    /\ has_cache(cache_dir, fetch.bbox)
    /\ EntryFailure(cache_dir, fetch.bbox) = Err("IntegrityError")
    /\ \E b \in FetchBoxes :
          /\ has_cache(cache_dir, b)
          /\ ~IsGarbled(cache_dir[CacheKey[b]].meta.content)
          /\ EntryFailure(cache_dir, b) = Err("SerializationError")

(***************************************************************************)
(* Properties of download_only, checked under DownloadOnlySpec.            *)
(***************************************************************************)
\* C28: download-only flow.  download_only fetches from the network whether
\* or not the box has an entry; when it succeeds it has saved the fetched
\* data under the key of the box in place of any entry there was, has_cache
\* is then true and load_from_cache returns the fetched data.  It splits no
\* region and dispatches no work.
C28_DownloadOnlyFlow ==
    [][/\ (fetch.pc # "downloading" /\ fetch'.op = "download_only") =>
              /\ fetch'.pc = "downloading"
              /\ Len(fetch'.urls) = 1
              /\ cache_dir' = cache_dir
       /\ (/\ fetch.op = "download_only"
            /\ fetch.pc = "downloading"
            /\ fetch'.pc = "done"
            /\ fetch'.result.ok) =>
              /\ fetch'.fetched.ok
              /\ fetch'.cache_writes = 1
              /\ has_cache(cache_dir', fetch.bbox)
              /\ cache_dir'[CacheKey[fetch.bbox]] =
                    [osm |-> File(to_string(fetch'.fetched.value)),
                     meta |-> File(NewMetadata(
                                       fetch.bbox,
                                       to_string(fetch'.fetched.value),
                                       fetch.download_method, Now))]
              /\ load_from_cache(cache_dir', fetch.bbox) = fetch'.fetched
              /\ \A k \in Keys \ {CacheKey[fetch.bbox]} :
                    cache_dir'[k] = cache_dir[k]
       /\ (fetch.op = "download_only" \/ fetch'.op = "download_only") =>
              UNCHANGED <<chunkVars, coordVars>>]_vars

\* download_only, called for a box that had an entry of one element, has
\* returned with a document of two elements in its place
C28_Witness ==
    /\ fetch.op = "download_only"
    /\ fetch.pc = "done"
    /\ fetch.result = Ok(Unit)
    /\ fetch.cached_before
    /\ fetch.fetched = Ok([elements |-> 2])
    /\ load_from_cache(cache_dir, fetch.bbox) = Ok([elements |-> 2])
    /\ saved[CacheKey[fetch.bbox]].data = <<"{", "e", "e", "}">>

(***************************************************************************)
(* Properties of the cache over a directory that can be damaged, checked   *)
(* under DirSpec.                                                          *)
(***************************************************************************)
\* the key of the box of the operation a step performs
StepKey == CacheKey[last'.bbox]

\* C16: has_cache.  has_cache(bbox) returns true exactly when both the
\* payload file and the metadata file exist under key(bbox), and changes
\* nothing; it is true right after a save for the box and false right
\* after a clear_cache of it.
C16_HasCacheIffBothFiles ==
    [][/\ last'.op = "has_cache" =>
             /\ last'.result = Ok(/\ cache_dir[StepKey].osm.exists
                                  /\ cache_dir[StepKey].meta.exists)
             /\ cache_dir' = cache_dir
       /\ last'.op = "save_osm_data" =>
             \A b \in BBoxes :
                 CacheKey[b] = StepKey => has_cache(cache_dir', b)
       /\ last'.op = "clear_cache" =>
             \A b \in BBoxes :
                 CacheKey[b] = StepKey => ~has_cache(cache_dir', b)]_vars

C16_Witness ==
    /\ last.op = "has_cache"
    /\ last.result = Ok(FALSE)
    /\ cache_dir[LastKey].osm.exists
    /\ ~cache_dir[LastKey].meta.exists

\* C17: missing entry.  load_osm_data and get_metadata on a key that has no
\* entry fail with NotFound, return no data and create nothing.
C17_MissingEntryNotFound ==
    [][(/\ last'.op \in {"load_osm_data", "get_metadata"}
        /\ cache_dir[StepKey] = EmptyDir) =>
          /\ last'.result = Err("NotFound")
          /\ cache_dir' = cache_dir]_vars

C17_Witness ==
    /\ last.op = "get_metadata"
    /\ cache_dir[LastKey] = EmptyDir
    /\ \E k \in Keys : cache_dir[k] # EmptyDir
    /\ last.result = Err("NotFound")

\* the key directories whose metadata file exists and parses
Listable(dir) ==
    {k \in Keys : /\ dir[k].meta.exists
                  /\ ~IsGarbled(dir[k].meta.content)}

\* C19: lenient listing.  list_cached_areas succeeds and returns exactly
\* one CacheMetadata for each key directory whose metadata file exists and
\* parses; a directory whose metadata is missing or does not parse is
\* skipped and takes no other entry with it.
C19_LenientListing ==
    [][last'.op = "list_cached_areas" =>
          /\ last'.result.ok
          /\ cache_dir' = cache_dir
          /\ Len(last'.result.value) = Cardinality(Listable(cache_dir))
          /\ \A k \in Listable(cache_dir) :
                Cardinality({i \in 1..Len(last'.result.value) :
                    last'.result.value[i] = cache_dir[k].meta.content}) = 1]_vars

C19_Witness ==
    /\ last.op = "list_cached_areas"
    /\ last.result.ok
    /\ Len(last.result.value) = 1
    /\ \E k \in Keys : /\ cache_dir[k].meta.exists
                         /\ IsGarbled(cache_dir[k].meta.content)

\* C20: clear_cache.  clear_cache(bbox) succeeds and removes the entry of
\* key(bbox) and nothing else: afterwards has_cache(bbox) is false and
\* load_osm_data(bbox) fails with NotFound, every other key directory is as
\* it was and loads as before, and when there was no entry nothing changes.
C20_ClearCacheFrame ==
    [][last'.op = "clear_cache" =>
          /\ last'.result.ok
          /\ cache_dir'[StepKey] = EmptyDir
          /\ ~has_cache(cache_dir', last'.bbox)
          /\ load_osm_data(cache_dir', last'.bbox) = Err("NotFound")
          /\ \A k \in Keys \ {StepKey} : cache_dir'[k] = cache_dir[k]
          /\ \A b \in BBoxes :
                CacheKey[b] # StepKey =>
                    load_osm_data(cache_dir', b) = load_osm_data(cache_dir, b)
          /\ cache_dir[StepKey] = EmptyDir => cache_dir' = cache_dir]_vars

C20_Witness ==
    /\ last.op = "clear_cache"
    /\ cache_dir[LastKey] = EmptyDir
    /\ \E b \in BBoxes :
          /\ CacheKey[b] # LastKey
          /\ load_osm_data(cache_dir, b) = Ok(<<"x">>)

\* C29: clear_all.  clear_all removes every entry and leaves the cache
\* usable: afterwards has_cache is false for every box, list_cached_areas
\* is empty and get_cache_size is 0, and a save that follows succeeds and
\* can be loaded.
C29_ClearAll ==
    [][/\ last'.op = "clear_all" =>
              /\ last'.result.ok
              /\ \A b \in BBoxes : ~has_cache(cache_dir', b)
              /\ \A order \in DirOrders :
                    list_cached_areas(cache_dir', order) = Ok(<<>>)
              /\ get_cache_size(cache_dir') = Ok(0)
       /\ (last.op = "clear_all" /\ last'.op = "save_osm_data") =>
              /\ last'.result.ok
              /\ has_cache(cache_dir', last'.bbox)
              /\ load_osm_data(cache_dir', last'.bbox)
                    = Ok(saved'[StepKey].data)
              /\ get_cache_size(cache_dir').value > 0]_vars

\* clear_all has just removed the two key directories there were
C29_Witness ==
    /\ last.op = "clear_all"
    /\ last.removed = Cardinality(Keys)
    /\ \A k \in Keys : cache_dir[k] = EmptyDir

\* every key is as the operations of the cache left it: no file of it was
\* removed or overwritten behind their back since its last save
Undamaged == \A k \in Keys : saved[k].made => saved[k].untouched

\* C30: entry consistency.  After any sequence of save_osm_data,
\* clear_cache and clear_all calls, run one at a time, every key has its
\* payload file exactly when it has its metadata file, the checksum in the
\* metadata is the checksum of the stored payload and the recorded size is
\* the payload's length; so load_osm_data succeeds wherever has_cache is
\* true.
C30_EntryConsistency ==
    Undamaged =>
        /\ \A k \in Keys :
              /\ cache_dir[k].osm.exists <=> cache_dir[k].meta.exists
              /\ cache_dir[k].osm.exists =>
                    /\ ~IsGarbled(cache_dir[k].meta.content)
                    /\ cache_dir[k].meta.content.osm_checksum
                          = calculate_checksum(cache_dir[k].osm.content)
                    /\ cache_dir[k].meta.content.osm_data_size
                          = Len(cache_dir[k].osm.content)
        /\ \A b \in BBoxes :
              has_cache(cache_dir, b) =>
                  load_osm_data(cache_dir, b)
                      = Ok(cache_dir[CacheKey[b]].osm.content)

\* one key holds the payload of a save, the other has just been cleared
C30_Witness ==
    /\ Undamaged
    /\ last.op = "clear_cache"
    /\ cache_dir[LastKey] = EmptyDir
    /\ \E b \in BBoxes :
          /\ CacheKey[b] # LastKey
          /\ has_cache(cache_dir, b)
          /\ cache_dir[CacheKey[b]].meta.content.osm_data_size = 1
          /\ load_osm_data(cache_dir, b) = Ok(<<"x">>)

(***************************************************************************)
(* Properties of the cache under threads that keep to their own keys,      *)
(* checked under OwnKeysSpec.                                              *)
(***************************************************************************)
\* C21: distinct-key independence.  However the file system calls of the
\* operations of one key interleave with those of another key, each
\* operation returns what it returns when the operations are run one after
\* the other, and it leaves its entry in the state they leave it in.
C21_DistinctKeyIndependence ==
    \A t \in DOMAIN OwnBox :
        /\ procs[t].pc = "done" => procs[t].result = procs[t].expected
        /\ procs[t].pc \in {"idle", "done"} =>
              cache_dir[CacheKey[OwnBox[t]]] = serial[CacheKey[OwnBox[t]]]

\* a save and a load have returned, each called while the other thread was
\* inside an operation on its own key
C21_Witness ==
    /\ procs["t1"].pc = "done"
    /\ procs["t1"].op = "save_osm_data"
    /\ procs["t1"].overlapped
    /\ procs["t1"].result.metadata.osm_checksum
           = calculate_checksum(<<"e", "e">>)
    /\ procs["t2"].pc = "done"
    /\ procs["t2"].op = "load_osm_data"
    /\ procs["t2"].overlapped
    /\ procs["t2"].result = OkData(<<"x">>)
    /\ CacheKey[OwnBox["t1"]] # CacheKey[OwnBox["t2"]]

(***************************************************************************)
(* Properties of the cache under threads that share a key, checked under   *)
(* SharedKeySpec.                                                          *)
(***************************************************************************)
SharedEntry == cache_dir[CacheKey[SharedBox]]

\* the bytes a payload file can show at offset i: those the two writers
\* put there, and the zero of a hole
BytesAt(i) ==
    {SharedCall[t].data[i] :
        t \in {u \in {"t1", "t2"} : i <= Len(SharedCall[u].data)}}
    \cup {"0"}

\* C22: same-key race.  Two save_osm_data calls on one key that nothing
\* synchronises can interleave their payload and metadata writes: both
\* return Ok, and what they leave is a payload file made of bytes of the
\* two payloads and a metadata file that is the record of either call or
\* no record at all, so the payload can be one writer's and the metadata
\* the other's; a load running beside them can read such a pair or a
\* payload that is only partly written.
C22_SameKeyRace ==
    (procs["t1"].pc = "done" /\ procs["t2"].pc = "done") =>
        /\ procs["t1"].result.ok
        /\ procs["t2"].result.ok
        /\ SharedEntry.osm.exists
        /\ SharedEntry.meta.exists
        /\ \/ SharedEntry.meta.content \in
                 {procs["t1"].result.metadata, procs["t2"].result.metadata}
           \/ IsGarbled(SharedEntry.meta.content)
        /\ Len(SharedEntry.osm.content) <= 2
        /\ \A i \in 1..Len(SharedEntry.osm.content) :
              SharedEntry.osm.content[i] \in BytesAt(i)

\* both saves have returned: the payload stored is that of t2 and the
\* metadata that of t1, and the load of t3 has failed the integrity check
\* on the first byte of t2's payload, read before the second was written
C22_Witness ==
    /\ procs["t1"].pc = "done"
    /\ procs["t2"].pc = "done"
    /\ SharedEntry.osm.content = SharedCall["t2"].data
    /\ SharedEntry.meta.content = procs["t1"].result.metadata
    /\ SharedEntry.meta.content.osm_checksum
           = calculate_checksum(SharedCall["t1"].data)
    /\ procs["t3"].pc = "done"
    /\ procs["t3"].data = <<"e">>
    /\ procs["t3"].result = Failed("IntegrityError")

(***************************************************************************)
(* Properties of generate_cache_key, checked under KeySpec.                *)
(***************************************************************************)
\* a coordinate rounded to 6 decimal places, in units of 1e-6 degree
Round6(x) ==
    IF x < 0 THEN -((-x + 5) \div 10) ELSE (x + 5) \div 10

SameRounded(a, b) ==
    /\ Round6(a.min_lat) = Round6(b.min_lat)
    /\ Round6(a.min_lng) = Round6(b.min_lng)
    /\ Round6(a.max_lat) = Round6(b.max_lat)
    /\ Round6(a.max_lng) = Round6(b.max_lng)

\* C18: key determinism.  Two boxes whose four coordinates agree when
\* rounded to 6 decimal places, coordinates on either side of zero that
\* both round to 0.000000 among them, get the same key.
C18_KeyDeterminism ==
    (key_result # NoKeys /\ SameRounded(key_call[1], key_call[2]))
    => key_result[1] = key_result[2]

\* the four coordinates of a box as format!("{:.6}") prints them
Formatted(bbox) ==
    <<Format6(bbox.min_lat), Format6(bbox.min_lng),
      Format6(bbox.max_lat), Format6(bbox.max_lng)>>

\* C35: key injectivity on quantized coordinates.  Two boxes whose
\* coordinates, formatted to 6 decimal places with sign, differ in at least
\* one coordinate get different keys: replacing '.' and '-' by '_' and
\* joining with '_' keeps different formatted 4-tuples apart.
C35_KeyInjectivity ==
    (key_result # NoKeys /\ Formatted(key_call[1]) # Formatted(key_call[2]))
    => key_result[1] # key_result[2]

\* two boxes that differ only in the sign of a zero latitude: the keys were
\* generated, and the first has one more '_' in front
C35_Witness ==
    /\ key_result # NoKeys
    /\ Format6(key_call[1].min_lat) = <<"-", "0", ".", "0", "0", "0", "0", "0", "0">>
    /\ Format6(key_call[2].min_lat) = <<"0", ".", "0", "0", "0", "0", "0", "0">>
    /\ Format6(key_call[1].min_lng) = Format6(key_call[2].min_lng)
    /\ key_result[1] = "_" \o key_result[2]

(***************************************************************************)
(* Properties of the performance configuration, checked under PerfSpec.    *)
(***************************************************************************)
\* C25: override caps.  After any sequence of set_ram_override,
\* set_threads_override and set_simd_override, effective_ram_gb is at most
\* the detected total memory and effective_threads at most the detected
\* logical CPU count; an override above the system value yields the system
\* value, one at or below it yields the requested value.
C25_OverrideCaps ==
    LET platform_info == PERF_CONFIG.platform_info
        ram == PERF_CONFIG.user_ram_override
        threads == PERF_CONFIG.user_threads_override
    IN  /\ PERF_CONFIG.effective_ram_gb <= platform_info.total_memory_gb
        /\ PERF_CONFIG.effective_threads <= platform_info.logical_cpus
        /\ ram.some =>
              PERF_CONFIG.effective_ram_gb =
                  IF ram.value > platform_info.total_memory_gb
                  THEN platform_info.total_memory_gb ELSE ram.value
        /\ threads.some =>
              PERF_CONFIG.effective_threads =
                  IF threads.value > platform_info.logical_cpus
                  THEN platform_info.logical_cpus ELSE threads.value

\* a RAM override above the system's memory, a thread override below its
\* CPU count, and a SIMD override, all three in place
C25_Witness ==
    /\ PERF_CONFIG.user_ram_override.some
    /\ PERF_CONFIG.user_ram_override.value
           > PERF_CONFIG.platform_info.total_memory_gb
    /\ PERF_CONFIG.effective_ram_gb > DEFAULT_MAX_RAM_GB
    /\ PERF_CONFIG.user_threads_override.some
    /\ PERF_CONFIG.user_threads_override.value
           < PERF_CONFIG.platform_info.logical_cpus
    /\ PERF_CONFIG.user_simd_override.some

\* C34: the SIMD override is one-way.  While SIMD has not been disabled,
\* simd_capability is the detected value, also after set_simd_override(true);
\* the only step that changes it is a set_simd_override(false), which makes
\* it None, and no later override call of any kind changes it again.
C34_SimdOverrideOneWay ==
    /\ [](~PERF_CONFIG.user_simd_override.some =>
             PERF_CONFIG.simd_capability
                 = PERF_CONFIG.platform_info.simd_capability)
    /\ [][/\ PERF_CONFIG'.simd_capability # PERF_CONFIG.simd_capability =>
                /\ PERF_CONFIG'.user_simd_override = Some(FALSE)
                /\ PERF_CONFIG'.simd_capability = "None"
          /\ PERF_CONFIG.user_simd_override = Some(FALSE) =>
                /\ PERF_CONFIG.simd_capability = "None"
                /\ PERF_CONFIG'.simd_capability = "None"
          /\ PERF_CONFIG'.platform_info = PERF_CONFIG.platform_info]_vars

\* SIMD was detected, disabled and enabled again, and a RAM override was
\* made: the override says true and the capability is None
C34_Witness ==
    /\ PERF_CONFIG.platform_info.simd_capability = "Avx2"
    /\ PERF_CONFIG.user_simd_override = Some(TRUE)
    /\ PERF_CONFIG.simd_capability = "None"
    /\ PERF_CONFIG.user_ram_override.some

(***************************************************************************)
(* Two saves in a row under one key, checked under Spec.                   *)
(***************************************************************************)
\* the entries of a listing whose bounding box has the key cache_key
EntriesOfKey(entries, cache_key) ==
    {i \in 1..Len(entries) : generate_cache_key(entries[i].bbox) = cache_key}

\* C31: last writer wins per key.  When a save_osm_data(b1, p1, m1) is
\* followed by a save_osm_data(b2, p2, m2) whose box has the same key, be it
\* the same box or one that rounds to the same six decimals, load_osm_data(b1)
\* returns p2, get_metadata(b1) reports bbox b2, method m2 and the checksum
\* of p2, and list_cached_areas has exactly one entry for the key, in
\* whatever order the directory is read.
C31_LastWriterWins ==
    [][(/\ last.op = "save_osm_data"
        /\ last'.op = "save_osm_data"
        /\ CacheKey[last.bbox] = CacheKey[last'.bbox])
       => LET b1 == last.bbox
              b2 == last'.bbox
              p2 == saved'[CacheKey[b2]].data
              m2 == last'.result.value.download_method
              metadata == load_metadata(cache_dir', CacheKey[b1])
          IN  /\ load_osm_data(cache_dir', b1) = Ok(p2)
              /\ metadata.ok
              /\ metadata.value.bbox = b2
              /\ metadata.value.download_method = m2
              /\ metadata.value.osm_checksum = calculate_checksum(p2)
              /\ \A order \in DirOrders :
                    LET areas == list_cached_areas(cache_dir', order)
                    IN  /\ areas.ok
                        /\ Cardinality(EntriesOfKey(areas.value,
                                                    CacheKey[b1])) = 1]_vars

\* after a save of the box of test_cache_integrity and a save with another
\* payload and method of the box that differs from it in the seventh
\* decimal place, the first box loads the second payload
C31_Witness ==
    LET b1 == BBoxOf(400000000, -740000000, 410000000, -730000000)
        b2 == BBoxOf(400000004, -740000000, 410000000, -730000000)
    IN  /\ last.op = "load_osm_data"
        /\ last.bbox = b1
        /\ last.result = Ok(<<"x", "x">>)
        /\ saved[CacheKey[b1]].made
        /\ saved[CacheKey[b1]].untouched
        /\ saved[CacheKey[b1]].metadata.bbox = b2
        /\ saved[CacheKey[b1]].metadata.download_method = "curl"
        /\ cache_dir[CacheKey[b1]].meta.content = saved[CacheKey[b1]].metadata

(***************************************************************************)
(* Failed downloads and the cache, checked under RetrieveSpec.             *)
(***************************************************************************)
\* C33: no caching of failures.  While fetch_data_with_cache or
\* download_only is downloading, the cache stays as it is until the call
\* has its data; when the call fails, because both download attempts
\* failed, the response was no JSON document or the document had no
\* elements, it has written nothing: has_cache(bbox) has its previous value
\* and every entry is as it was.
C33_NoCachingOfFailures ==
    [][(/\ fetch.pc = "downloading"
        /\ fetch.op \in {"fetch_data_with_cache", "download_only"}
        /\ ~(fetch'.pc = "done" /\ fetch'.result.ok))
       => /\ cache_dir' = cache_dir
          /\ fetch'.cache_writes = 0
          /\ has_cache(cache_dir', fetch.bbox) = fetch.cached_before
          /\ \A b \in FetchBoxes :
                /\ has_cache(cache_dir', b) = has_cache(cache_dir, b)
                /\ load_osm_data(cache_dir', b) = load_osm_data(cache_dir, b)
                /\ load_metadata(cache_dir', CacheKey[b])
                       = load_metadata(cache_dir, CacheKey[b])]_vars

\* download_only has failed on a box that had an entry, both downloads
\* having failed, and the entry is still the one that was saved
C33_Witness ==
    /\ fetch.pc = "done"
    /\ fetch.op = "download_only"
    /\ fetch.outcomes = <<"failed", "failed">>
    /\ ~fetch.result.ok
    /\ fetch.cached_before
    /\ saved[CacheKey[fetch.bbox]].made
    /\ load_osm_data(cache_dir, fetch.bbox)
           = Ok(saved[CacheKey[fetch.bbox]].data)

(***************************************************************************)
(* load_osm_data while the key is saved and cleared, checked under         *)
(* ClearRaceSpec.                                                          *)
(***************************************************************************)
\* C32: load safety under races.  However the file steps of save_osm_data,
\* load_osm_data and clear_cache on one key interleave, a load_osm_data
\* that returns Ok returns the complete payload of a save_osm_data call,
\* with the checksum of the metadata that this load read: never a payload
\* written in part, never one with another checksum.  The checksum has no
\* collision among the contents the file can have.
C32_LoadSafety ==
    [][\A t \in Threads :
          (/\ procs[t].op = "load_osm_data"
           /\ procs[t].pc = "read_meta"
           /\ procs'[t].pc = "done"
           /\ procs'[t].result.ok)
          => LET metadata == procs[t].metadata
                 data == procs'[t].result.data
             IN  /\ data \in ClearRacePayloads
                 /\ metadata # NoMetadata
                 /\ calculate_checksum(data) = metadata.osm_checksum]_vars

\* a load that was called after a clear_cache of the key, which run in one
\* piece would have left nothing to find, has returned the whole payload
\* of the other thread's save while the clear_cache was still removing, and
\* the clear_cache has ended since
C32_Witness ==
    /\ procs["t3"].pc = "done"
    /\ procs["t3"].overlapped
    /\ procs["t3"].expected = Failed("NotFound")
    /\ procs["t3"].result = OkData(<<"x", "x">>)
    /\ procs["t2"].op = "clear_cache"
    /\ procs["t2"].pc = "done"
    /\ procs["t2"].overlapped
    /\ cache_dir[CacheKey[SharedBox]] = EmptyDir

====
